---- MODULE Spec2Model ----
(***************************************************************************)
(* Model of the PoC v2 router of the MLNode API                            *)
(* (mlnode/packages/api/src/api/inference/pow_v2_routes.py).               *)
(*                                                                         *)
(* The router proxies five endpoints to a pool of vLLM backends:           *)
(*   init_generate, stop, status   fan out to every healthy backend,       *)
(*   generate                      acquires one backend and forwards,      *)
(*   get_generate_result           polls the backend named in the id.      *)
(*                                                                         *)
(* The pool itself (api.proxy: vllm_backend_ports, vllm_healthy,           *)
(* vllm_counts, poc_status_by_port, get_healthy_backends,                  *)
(* pick_backend_for_pow_generate, _release_vllm_backend) is a separate     *)
(* module of the service; it is modelled from its contract and the state   *)
(* the unit tests patch.                                                   *)
(*                                                                         *)
(* Strings that the code builds or takes apart (request ids) are           *)
(* sequences of one-character strings, so that formatting and splitting    *)
(* are computed and not assumed.                                           *)
(*                                                                         *)
(* The module also models the weighted slot sampler of                     *)
(* proposals/poc/optimize.py (get_slot, get_slots); its state is the       *)
(* variable sampler, which the router never touches.                       *)
(***************************************************************************)
EXTENDS Integers, Sequences, FiniteSets, TLC

\* ---------------------------------------------------------------- bounds

\* Number of backends configured in vllm_backend_ports.
NumBackends == 2

\* Weights of a weight table are 0..MaxWeight.
MaxWeight == 2

\* get_slots is asked for 0..MaxSlots slots.
MaxSlots == 2

\* ------------------------------------------------------------ pool state

VARIABLES
    vllm_healthy,        \* port -> BOOLEAN, written by the health checker
    vllm_counts,         \* port -> in-flight count (inFlight)
    poc_status_by_port,  \* port -> last PoC status the pool has seen
    req,                 \* request slot -> the handler's position and locals
    sampler              \* one evaluation of the consensus sampler (optimize.py)

vars == <<vllm_healthy, vllm_counts, poc_status_by_port, req, sampler>>

\* The configured ports, in order: 5001, 5002, ... as in the unit tests.
vllm_backend_ports == [i \in 1..NumBackends |-> 5000 + i]

Ports == {vllm_backend_ports[i] : i \in 1..NumBackends}

\* Two request slots.  The handlers share nothing but the pool, and a slot
\* is used for one request, so two slots show every way in which one request
\* can interfere with another.
Reqs == {1, 2}

\* Busy states the pool records for a backend.
BusyStates == {"IDLE", "GENERATING", "STOPPED"}

\* ------------------------------------------------------------- strings

Digits == <<"0", "1", "2", "3", "4", "5", "6", "7", "8", "9">>

\* str(n) for n >= 0, as in the f-string f"{port}:..."
RECURSIVE IntToStr(_)
IntToStr(n) ==
    IF n < 10 THEN <<Digits[n + 1]>>
    ELSE Append(IntToStr(n \div 10), Digits[(n % 10) + 1])

\* The characters request ids are made of here: digits, letters and ":".
IsDigit(c) == \E d \in 0..9 : Digits[d + 1] = c

DigitValue(c) == CHOOSE d \in 0..9 : Digits[d + 1] = c

\* The position of the first ":" of s from position k on, 0 if there is none.
RECURSIVE FirstColonFrom(_, _)
FirstColonFrom(s, k) ==
    IF k > Len(s) THEN 0
    ELSE IF s[k] = ":" THEN k
    ELSE FirstColonFrom(s, k + 1)

\* The position of the last ":" of s up to position k, 0 if there is none.
RECURSIVE LastColonUpTo(_, _)
LastColonUpTo(s, k) ==
    IF k = 0 THEN 0
    ELSE IF s[k] = ":" THEN k
    ELSE LastColonUpTo(s, k - 1)

\* ":" in s
HasColon(s) == FirstColonFrom(s, 1) # 0

\* Mutant of split_once: s.rsplit(":", 1), the split at the last ":".
rsplit_once(s) ==
    LET k == LastColonUpTo(s, Len(s))
    IN  <<SubSeq(s, 1, k - 1), SubSeq(s, k + 1, Len(s))>>

\* s.split(":", 1) for an s that contains ":": the part before the first ":"
\* and the part after it.
split_once(s) ==
    LET k == FirstColonFrom(s, 1)
    IN  <<SubSeq(s, 1, k - 1), SubSeq(s, k + 1, Len(s))>>

\* The number a non-empty string of digits spells.
RECURSIVE DigitsToInt(_)
DigitsToInt(s) ==
    IF Len(s) = 1 THEN DigitValue(s[1])
    ELSE 10 * DigitsToInt(SubSeq(s, 1, Len(s) - 1)) + DigitValue(s[Len(s)])

\* int(s) on strings of digits, letters and ":": the number s spells if s is
\* a non-empty string of digits, ValueError otherwise.  (Python's int also
\* takes a sign, blanks around the number and "_" between digits; none of
\* these characters occurs in the ids used here.)
int(s) ==
    IF s # <<>> /\ \A k \in 1..Len(s) : IsDigit(s[k])
    THEN [ok |-> TRUE, value |-> DigitsToInt(s)]
    ELSE [ok |-> FALSE]

\* Inner request ids a backend may hand out; one of them contains ":".
InnerIds == {<<"a">>, <<"a", ":", "b">>}

\* --------------------------------------------------- backend responses

\* What awaiting call_backend can produce: an exception, or a response with
\* a status code, a text and a body that r.json() decodes (or fails to).
\* A decoded body is a JSON object (a function from keys to values) or
\* some other JSON value.
Raise == [kind |-> "raise"]

Resp(code, json) == [kind |-> "response", status_code |-> code, json |-> json]

JsonInvalid == [ok |-> FALSE]

JsonNonObject == [ok |-> TRUE, isobj |-> FALSE]

JsonObject(obj) == [ok |-> TRUE, isobj |-> TRUE, obj |-> obj]

\* Status codes other than 200 that a backend answers with.
ErrorCodes == {400, 404, 500}

\* Bodies of the backend's POST /api/v1/pow/generate.
GenerateBodies ==
    {JsonObject([status |-> "queued", request_id |-> id]) : id \in InnerIds}
        \cup {JsonObject([status |-> "completed", request_id |-> id]) : id \in InnerIds}
        \cup {JsonObject([status |-> "queued"]), JsonNonObject, JsonInvalid}

GenerateOutcomes ==
    {Raise} \cup {Resp(200, b) : b \in GenerateBodies}
            \cup {Resp(c, JsonInvalid) : c \in ErrorCodes}

\* ------------------------------------------------------- request slots

NoResponse == [code |-> 0]

\* The body of a generate request that asks for no validation.
PlainBody == [validation |-> FALSE, nonces |-> <<>>, artifacts |-> <<>>]

IdleReq ==
    [pc |-> "idle", op |-> "none", request_id |-> <<>>, port |-> 0,
     body |-> PlainBody,
     backends |-> <<>>,
     pending |-> {}, sent |-> <<>>, got |-> <<>>, results |-> <<>>,
     errors |-> <<>>, releases |-> 0, exit |-> "none", upstream |-> Raise,
     response |-> NoResponse]

\* Slots are interchangeable: they are taken in order.
Fresh(r) ==
    /\ req[r].pc = "idle"
    /\ \A q \in Reqs : q < r => req[q].pc # "idle"

\* ------------------------------------------------------------------ pool

\* get_healthy_backends(): the healthy ports, in vllm_backend_ports order.
get_healthy_backends ==
    SelectSeq(vllm_backend_ports, LAMBDA p : vllm_healthy[p])

SeqRange(s) == {s[i] : i \in 1..Len(s)}

\* The ports pick_backend_for_pow_generate may return: among the healthy
\* ones those that are not GENERATING if there are any, else all healthy
\* ones; of these, the ones with the lowest in-flight count.
pick_backend_for_pow_generate ==
    LET live == SeqRange(get_healthy_backends)
        idle == {p \in live : poc_status_by_port[p] # "GENERATING"}
        pool == IF idle # {} THEN idle ELSE live
    IN  {p \in pool : \A q \in pool : vllm_counts[p] <= vllm_counts[q]}

\* _release_vllm_backend(port), called n times.
release_vllm_backend(counts, port, n) ==
    [counts EXCEPT ![port] = @ - n]

\* ------------------------------------------------------------ environment

\* The health checker flips a backend's health.
SetHealthy(p) ==
    /\ vllm_healthy' = [vllm_healthy EXCEPT ![p] = ~@]
    /\ UNCHANGED <<vllm_counts, poc_status_by_port, req, sampler>>

\* The pool learns a new PoC status of a backend.
SetPocStatus(p, s) ==
    /\ poc_status_by_port[p] # s
    /\ poc_status_by_port' = [poc_status_by_port EXCEPT ![p] = s]
    /\ UNCHANGED <<vllm_healthy, vllm_counts, req, sampler>>

\* --------------------------------------------------------------- generate

\* Mutant of generate_pick: the least loaded healthy backend, whatever its
\* PoC status (the picker of the plain inference proxy).
generate_pick_least_loaded ==
    LET live == SeqRange(get_healthy_backends)
    IN  {p \in live : \A q \in live : vllm_counts[p] <= vllm_counts[q]}

\* Line 194: the backend generate asks the pool for.
generate_pick == pick_backend_for_pow_generate

\* Mutant of generate_rewrite: every response that carries a request id gets
\* a composite one, a terminal response too.
generate_rewrite_any_status(port, data) ==
    IF "request_id" \in DOMAIN data
    THEN [data EXCEPT !.request_id = IntToStr(port) \o <<":">> \o @]
    ELSE data

\* Lines 205-209: the decoded response, with a queued request's id made
\* composite.
generate_rewrite(port, data) ==
    IF "status" \in DOMAIN data /\ data.status = "queued"
       /\ "request_id" \in DOMAIN data
    THEN [data EXCEPT !.request_id = IntToStr(port) \o <<":">> \o @]
    ELSE data

\* Mutant of generate_handle: without the clause "except HTTPException:
\* raise" the HTTPException of a non-200 answer reaches "except Exception",
\* which releases a second time and answers 502.
generate_handle_no_reraise(port, o) ==
    IF o.kind = "raise"
    THEN [response |-> [code |-> 502], releases |-> 1, exit |-> "exception"]
    ELSE IF o.status_code # 200
    THEN [response |-> [code |-> 502], releases |-> 2, exit |-> "upstream_error"]
    ELSE IF ~o.json.ok \/ ~o.json.isobj
    THEN [response |-> [code |-> 502], releases |-> 1, exit |-> "exception"]
    ELSE [response |-> [code |-> 200, data |-> generate_rewrite(port, o.json.obj)],
          releases |-> 1, exit |-> "ok"]

\* Mutant of generate_handle: line 203 raises HTTPException(status_code=502),
\* as line 218 does.
generate_handle_bad_gateway(port, o) ==
    IF o.kind = "raise"
    THEN [response |-> [code |-> 502], releases |-> 1, exit |-> "exception"]
    ELSE IF o.status_code # 200
    THEN [response |-> [code |-> 502], releases |-> 1, exit |-> "upstream_error"]
    ELSE IF ~o.json.ok \/ ~o.json.isobj
    THEN [response |-> [code |-> 502], releases |-> 1, exit |-> "exception"]
    ELSE [response |-> [code |-> 200, data |-> generate_rewrite(port, o.json.obj)],
          releases |-> 1, exit |-> "ok"]

\* Lines 198-218: what generate does with the outcome o of call_backend:
\* the response it gives, how often it releases the backend, and the path
\* it leaves by.
generate_handle(port, o) ==
    IF o.kind = "raise"
    THEN \* except Exception: release, 502
         [response |-> [code |-> 502], releases |-> 1, exit |-> "exception"]
    ELSE IF o.status_code # 200
    THEN \* release, HTTPException(r.status_code), re-raised as it is
         [response |-> [code |-> o.status_code], releases |-> 1,
          exit |-> "upstream_error"]
    ELSE IF ~o.json.ok \/ ~o.json.isobj
    THEN \* r.json() or data.get raises: except Exception: release, 502
         [response |-> [code |-> 502], releases |-> 1, exit |-> "exception"]
    ELSE [response |-> [code |-> 200, data |-> generate_rewrite(port, o.json.obj)],
          releases |-> 1, exit |-> "ok"]

\* Lines 195-196: the answer when the pool raises RuntimeError.
generate_no_backends == [code |-> 503]

\* Lines 193-199: acquire a backend and start the call to it with the
\* request's body, or fail with 503 when the pool has none.
generate_start(r, body) ==
    /\ Fresh(r)
    /\ IF get_healthy_backends = <<>>
       THEN /\ req' = [req EXCEPT ![r] =
                    [IdleReq EXCEPT !.pc = "done", !.op = "generate",
                                    !.body = body,
                                    !.exit = "no_backend",
                                    !.response = generate_no_backends]]
            /\ UNCHANGED vllm_counts
       ELSE \E p \in generate_pick :
            /\ vllm_counts' = [vllm_counts EXCEPT ![p] = @ + 1]
            /\ req' = [req EXCEPT ![r] =
                    [IdleReq EXCEPT !.pc = "awaiting", !.op = "generate",
                                    !.body = body,
                                    !.port = p,
                                    !.sent = <<[port |-> p, path |-> "generate"]>>]]
    /\ UNCHANGED <<vllm_healthy, poc_status_by_port, sampler>>

\* A generate request without validation arrives.
GenerateAcquire(r) == generate_start(r, PlainBody)

\* Mutant of GenerateResponse: after a failed call the handler releases the
\* backend, acquires another one and sends the request again, once.
GenerateResponseRetry(r, o) ==
    /\ req[r].op = "generate"
    /\ req[r].pc = "awaiting"
    /\ LET h == generate_handle(req[r].port, o)
           released == release_vllm_backend(vllm_counts, req[r].port, h.releases)
       IN  IF h.exit # "ok" /\ Len(req[r].sent) = 1 /\ generate_pick # {}
           THEN \E p \in generate_pick :
                /\ vllm_counts' = [released EXCEPT ![p] = @ + 1]
                /\ req' = [req EXCEPT ![r].port = p,
                                      ![r].sent = Append(@, [port |-> p, path |-> "generate"])]
           ELSE /\ vllm_counts' = released
                /\ req' = [req EXCEPT ![r].pc = "done", ![r].upstream = o,
                                      ![r].response = h.response,
                                      ![r].releases = h.releases,
                                      ![r].exit = h.exit]
    /\ UNCHANGED <<vllm_healthy, poc_status_by_port, sampler>>

\* Lines 199-218: call_backend returns or raises, and the handler finishes.
GenerateResponse(r, o) ==
    /\ req[r].op = "generate"
    /\ req[r].pc = "awaiting"
    /\ LET h == generate_handle(req[r].port, o)
       IN  /\ vllm_counts' = release_vllm_backend(vllm_counts, req[r].port, h.releases)
           /\ req' = [req EXCEPT ![r].pc = "done", ![r].upstream = o,
                                 ![r].response = h.response,
                                 ![r].releases = h.releases,
                                 ![r].exit = h.exit]
    /\ UNCHANGED <<vllm_healthy, poc_status_by_port, sampler>>

\* The request's task is cancelled while it awaits call_backend (line 199):
\* asyncio.CancelledError is a BaseException, so neither except clause
\* (lines 214-218) catches it and no release runs.
GenerateCancel(r) ==
    /\ req[r].op = "generate"
    /\ req[r].pc = "awaiting"
    /\ req' = [req EXCEPT ![r].pc = "done", ![r].exit = "cancelled"]
    /\ UNCHANGED <<vllm_healthy, vllm_counts, poc_status_by_port, sampler>>

\* ------------------------------------------------------------- validation
\* The backend's answer to a generate request that carries validation
\* artifacts.  The detector runs in the backend; it is modelled on its
\* specification.

\* The most nonces and artifacts of a request.
MaxNonces == 2

Nonces == 1..MaxNonces

\* StatTestModel.dist_threshold, 0.02, in thousandths.
dist_threshold == 20

\* Vectors, with components in thousandths.
Vectors == {<<0, 0>>, <<12, 16>>, <<15, 15>>}

\* The nonce lists of a request.
NonceLists == UNION {[1..n -> Nonces] : n \in 0..MaxNonces}

\* The claimed artifacts of a request: artifacts of different nonces.
ArtifactLists ==
    UNION {{a \in [1..n -> [nonce : Nonces, vector : Vectors]] :
                \A i, j \in 1..n : a[i].nonce = a[j].nonce => i = j} :
           n \in 0..MaxNonces}

ValidationBody(nonces, artifacts) ==
    [validation |-> TRUE, nonces |-> nonces, artifacts |-> artifacts]

\* The authoritative vector of a nonce, from the regeneration function of
\* the backend.
regenerate(nonce) == <<nonce - 1, 0>>

\* The square of the Euclidean distance of two vectors.
RECURSIVE l2_squared(_, _)
l2_squared(u, v) ==
    IF u = <<>> THEN 0
    ELSE (u[1] - v[1]) * (u[1] - v[1]) + l2_squared(Tail(u), Tail(v))

\* The precondition: as many nonces as artifacts, and the same nonces.
validation_well_formed(body) ==
    /\ Len(body.nonces) = Len(body.artifacts)
    /\ {body.nonces[i] : i \in 1..Len(body.nonces)}
           = {body.artifacts[i].nonce : i \in 1..Len(body.artifacts)}

\* The claimed vector of a nonce.
claimed_vector(body, nonce) ==
    body.artifacts[CHOOSE i \in 1..Len(body.artifacts) :
                       body.artifacts[i].nonce = nonce].vector

\* Mutant of is_mismatch: a distance at the threshold is a mismatch.
is_mismatch_ge(body, nonce) ==
    l2_squared(claimed_vector(body, nonce), regenerate(nonce))
        >= dist_threshold * dist_threshold

\* A nonce is a mismatch if the distance of its claimed vector from the
\* regenerated one exceeds dist_threshold.
is_mismatch(body, nonce) ==
    l2_squared(claimed_vector(body, nonce), regenerate(nonce))
        > dist_threshold * dist_threshold

\* The mismatches of nonces, in order.
RECURSIVE mismatch_nonces(_, _)
mismatch_nonces(body, nonces) ==
    IF nonces = <<>> THEN <<>>
    ELSE (IF is_mismatch(body, Head(nonces)) THEN <<Head(nonces)>> ELSE <<>>)
             \o mismatch_nonces(body, Tail(nonces))

\* The detector's answer: 400 for a request that is not well formed, and
\* the counts of a well-formed one.
validate_artifacts(body) ==
    IF ~validation_well_formed(body) THEN Resp(400, JsonInvalid)
    ELSE LET mismatches == mismatch_nonces(body, body.nonces)
         IN  Resp(200, JsonObject([status |-> "completed",
                                   n_total |-> Len(body.nonces),
                                   n_mismatch |-> Len(mismatches),
                                   mismatch_nonces |-> mismatches]))

\* A generate request with a nonce list and validation artifacts arrives.
GenerateValidation(r) ==
    /\ Fresh(r)
    /\ \E nonces \in NonceLists, artifacts \in ArtifactLists :
            generate_start(r, ValidationBody(nonces, artifacts))

\* The backend answers a validation request, and the handler finishes.
GenerateValidated(r) ==
    /\ req[r].body.validation
    /\ GenerateResponse(r, validate_artifacts(req[r].body))

\* ---------------------------------------------------------------- fan-out

FanoutOps == {"init_generate", "stop", "status"}

\* One fan-out is followed at a time: fan-outs read the pool once, when they
\* start, and write nothing that another request reads.
OneFanout(r) == \A q \in Reqs \ {r} : req[q].op \notin FanoutOps

\* "x if x else None" for a list x.
OrNone(x) ==
    IF x = <<>> THEN [is_none |-> TRUE] ELSE [is_none |-> FALSE, value |-> x]

\* Answers of a backend to init/generate and to stop.
AckOutcomes ==
    {Raise, Resp(200, JsonObject([status |-> "OK"])), Resp(200, JsonInvalid)}
        \cup {Resp(c, JsonInvalid) : c \in ErrorCodes}

\* Answers of a backend to GET /api/v1/pow/status: an object with a status,
\* an object without one, a JSON value that is no object, an undecodable
\* body, an error status, an exception.
StatusOutcomes ==
    {Raise, Resp(200, JsonNonObject), Resp(200, JsonInvalid),
     Resp(200, JsonObject([stats |-> "s"]))}
        \cup {Resp(200, JsonObject([status |-> s])) : s \in BusyStates}
        \cup {Resp(c, JsonInvalid) : c \in ErrorCodes}

\* The outcome of the i-th call of a fan-out, recorded when it completes.
Got(i, o) == [index |-> i, outcome |-> o]

\* ---------------------------------------------------------- init_generate

\* Mutant of init_generate_payload: group ids counted from 1.
init_generate_payload_from_one(port, group_id, n_groups) ==
    [port |-> port, path |-> "init/generate",
     group_id |-> group_id + 1, n_groups |-> n_groups]

\* Lines 88-92: the request call_one(port, group_id) sends.
init_generate_payload(port, group_id, n_groups) ==
    [port |-> port, path |-> "init/generate",
     group_id |-> group_id, n_groups |-> n_groups]

\* Lines 91-95: what call_one returns for the outcome o of call_backend.
init_generate_call_one(port, o) ==
    IF o.kind = "raise"
    THEN [port |-> port, status |-> 500, data |-> "exception"]
    ELSE IF o.status_code = 200
    THEN IF o.json.ok
         THEN [port |-> port, status |-> 200, data |-> "json"]
         ELSE \* r.json() raises inside the try
              [port |-> port, status |-> 500, data |-> "exception"]
    ELSE [port |-> port, status |-> o.status_code, data |-> "text"]

\* Mutant of init_generate_return: n_groups is counted again from the
\* backends that succeeded.
init_generate_return_regrouped(n_groups, results, errors) ==
    IF results = <<>>
    THEN [code |-> 502, detail |-> [errors |-> errors]]
    ELSE [code |-> 200,
          data |-> [status |-> "OK", backends |-> Len(results),
                    n_groups |-> Len(results), results |-> results,
                    errors |-> OrNone(errors)]]

\* Mutant of init_generate_return: any failed backend fails the call.
init_generate_return_strict(n_groups, results, errors) ==
    IF errors # <<>>
    THEN [code |-> 502, detail |-> [errors |-> errors]]
    ELSE [code |-> 200,
          data |-> [status |-> "OK", backends |-> Len(results),
                    n_groups |-> n_groups, results |-> results,
                    errors |-> OrNone(errors)]]

\* Lines 105-114: the handler's answer once every call has completed.
init_generate_return(n_groups, results, errors) ==
    IF results = <<>>
    THEN [code |-> 502, detail |-> [errors |-> errors]]
    ELSE [code |-> 200,
          data |-> [status |-> "OK", backends |-> Len(results),
                    n_groups |-> n_groups, results |-> results,
                    errors |-> OrNone(errors)]]

\* Mutant of init_generate_no_backends: without the check of lines 80-81
\* the handler runs no call and answers 502 with no errors.
init_generate_no_check == [code |-> 502, detail |-> [errors |-> <<>>]]

\* Lines 80-81: the answer when the snapshot is empty.
init_generate_no_backends == [code |-> 503]

\* Lines 79-98: snapshot the healthy backends; 503 if there are none, else
\* start one call per backend of the snapshot.
InitGenerateStart(r) ==
    /\ Fresh(r)
    /\ OneFanout(r)
    /\ LET backends == get_healthy_backends
           n_groups == Len(backends)
       IN  IF backends = <<>>
           THEN req' = [req EXCEPT ![r] =
                    [IdleReq EXCEPT !.pc = "done", !.op = "init_generate",
                                    !.exit = "no_backend",
                                    !.response = init_generate_no_backends]]
           ELSE req' = [req EXCEPT ![r] =
                    [IdleReq EXCEPT !.pc = "awaiting", !.op = "init_generate",
                                    !.backends = backends,
                                    !.pending = 1..n_groups,
                                    !.sent = [i \in 1..n_groups |->
                                        init_generate_payload(backends[i], i - 1, n_groups)]]]
    /\ UNCHANGED <<vllm_healthy, vllm_counts, poc_status_by_port, sampler>>

\* Mutant of InitGenerateComplete: the outcomes are filed in the order in
\* which the calls were started (as with asyncio.gather), not in the order
\* in which they complete.
InitGenerateCompleteGather(r, i, o) ==
    /\ req[r].op = "init_generate"
    /\ req[r].pc = "awaiting"
    /\ i \in req[r].pending
    /\ LET got == Append(req[r].got, Got(i, o))
           pending == req[r].pending \ {i}
           outcome(j) == (CHOOSE g \in SeqRange(got) : g.index = j).outcome
           completed == SelectSeq([j \in 1..Len(req[r].backends) |-> j],
                                  LAMBDA j : j \notin pending)
           called == [k \in 1..Len(completed) |->
                        init_generate_call_one(req[r].backends[completed[k]],
                                               outcome(completed[k]))]
           ok == SelectSeq(called, LAMBDA c : c.status = 200)
           failed == SelectSeq(called, LAMBDA c : c.status # 200)
           results == [k \in 1..Len(ok) |-> [port |-> ok[k].port, status |-> "OK"]]
           errors == [k \in 1..Len(failed) |->
                        [port |-> failed[k].port, error |-> failed[k].data]]
       IN  req' = [req EXCEPT
                ![r].results = results, ![r].errors = errors,
                ![r].pending = pending, ![r].got = got,
                ![r].pc = IF pending = {} THEN "done" ELSE "awaiting",
                ![r].exit = IF pending = {} THEN "returned" ELSE "none",
                ![r].response = IF pending = {}
                                THEN init_generate_return(Len(req[r].backends),
                                                          results, errors)
                                ELSE NoResponse]
    /\ UNCHANGED <<vllm_healthy, vllm_counts, poc_status_by_port, sampler>>

\* Lines 98-114: the next call to complete is the i-th; its outcome is
\* filed, and after the last one the handler answers.
InitGenerateComplete(r, i, o) ==
    /\ req[r].op = "init_generate"
    /\ req[r].pc = "awaiting"
    /\ i \in req[r].pending
    /\ LET c == init_generate_call_one(req[r].backends[i], o)
           results == IF c.status = 200
                      THEN Append(req[r].results, [port |-> c.port, status |-> "OK"])
                      ELSE req[r].results
           errors == IF c.status = 200
                     THEN req[r].errors
                     ELSE Append(req[r].errors, [port |-> c.port, error |-> c.data])
           pending == req[r].pending \ {i}
       IN  req' = [req EXCEPT
                ![r].results = results, ![r].errors = errors,
                ![r].pending = pending, ![r].got = Append(@, Got(i, o)),
                ![r].pc = IF pending = {} THEN "done" ELSE "awaiting",
                ![r].exit = IF pending = {} THEN "returned" ELSE "none",
                ![r].response = IF pending = {}
                                THEN init_generate_return(Len(req[r].backends),
                                                          results, errors)
                                ELSE NoResponse]
    /\ UNCHANGED <<vllm_healthy, vllm_counts, poc_status_by_port, sampler>>

\* ------------------------------------------------------------------- stop

\* Lines 127-132: what call_one returns for the outcome o of call_backend.
stop_call_one(port, o) ==
    IF o.kind = "raise"
    THEN [port |-> port, status |-> 500, data |-> "exception"]
    ELSE IF o.status_code = 200
    THEN IF o.json.ok
         THEN [port |-> port, status |-> 200, data |-> "json"]
         ELSE [port |-> port, status |-> 500, data |-> "exception"]
    ELSE [port |-> port, status |-> o.status_code, data |-> "text"]

\* Mutant of stop_return: like init_generate, 502 when no backend stopped.
stop_return_or_502(results, errors) ==
    IF results = <<>>
    THEN [code |-> 502, detail |-> [errors |-> errors]]
    ELSE [code |-> 200,
          data |-> [status |-> "OK", results |-> results,
                    errors |-> OrNone(errors)]]

\* Lines 142-146: the handler's answer once every call has completed.
stop_return(results, errors) ==
    [code |-> 200,
     data |-> [status |-> "OK", results |-> results, errors |-> OrNone(errors)]]

\* Mutant of StopStart: stop cancels the generate requests in progress.
StopStartCancel(r) ==
    /\ Fresh(r)
    /\ OneFanout(r)
    /\ LET backends == get_healthy_backends
           cancelled == [q \in Reqs |->
                            IF req[q].op = "generate" /\ req[q].pc = "awaiting"
                            THEN [req[q] EXCEPT !.pc = "done", !.exit = "cancelled"]
                            ELSE req[q]]
       IN  IF backends = <<>>
           THEN req' = [cancelled EXCEPT ![r] =
                    [IdleReq EXCEPT !.pc = "done", !.op = "stop",
                                    !.exit = "returned",
                                    !.response =
                                        [code |-> 200,
                                         data |-> [status |-> "OK",
                                                   message |-> "No backends to stop"]]]]
           ELSE req' = [cancelled EXCEPT ![r] =
                    [IdleReq EXCEPT !.pc = "awaiting", !.op = "stop",
                                    !.backends = backends,
                                    !.pending = 1..Len(backends),
                                    !.sent = [i \in 1..Len(backends) |->
                                        [port |-> backends[i], path |-> "stop"]]]]
    /\ UNCHANGED <<vllm_healthy, vllm_counts, poc_status_by_port, sampler>>

\* Lines 120-135: snapshot the healthy backends; answer at once if there
\* are none, else start one call per backend of the snapshot.
StopStart(r) ==
    /\ Fresh(r)
    /\ OneFanout(r)
    /\ LET backends == get_healthy_backends
       IN  IF backends = <<>>
           THEN req' = [req EXCEPT ![r] =
                    [IdleReq EXCEPT !.pc = "done", !.op = "stop",
                                    !.exit = "returned",
                                    !.response =
                                        [code |-> 200,
                                         data |-> [status |-> "OK",
                                                   message |-> "No backends to stop"]]]]
           ELSE req' = [req EXCEPT ![r] =
                    [IdleReq EXCEPT !.pc = "awaiting", !.op = "stop",
                                    !.backends = backends,
                                    !.pending = 1..Len(backends),
                                    !.sent = [i \in 1..Len(backends) |->
                                        [port |-> backends[i], path |-> "stop"]]]]
    /\ UNCHANGED <<vllm_healthy, vllm_counts, poc_status_by_port, sampler>>

\* Lines 135-146: the next call to complete is the i-th.
StopComplete(r, i, o) ==
    /\ req[r].op = "stop"
    /\ req[r].pc = "awaiting"
    /\ i \in req[r].pending
    /\ LET c == stop_call_one(req[r].backends[i], o)
           results == IF c.status = 200
                      THEN Append(req[r].results, [port |-> c.port, status |-> "stopped"])
                      ELSE req[r].results
           errors == IF c.status = 200
                     THEN req[r].errors
                     ELSE Append(req[r].errors, [port |-> c.port, error |-> c.data])
           pending == req[r].pending \ {i}
       IN  req' = [req EXCEPT
                ![r].results = results, ![r].errors = errors,
                ![r].pending = pending, ![r].got = Append(@, Got(i, o)),
                ![r].pc = IF pending = {} THEN "done" ELSE "awaiting",
                ![r].exit = IF pending = {} THEN "returned" ELSE "none",
                ![r].response = IF pending = {}
                                THEN stop_return(results, errors)
                                ELSE NoResponse]
    /\ UNCHANGED <<vllm_healthy, vllm_counts, poc_status_by_port, sampler>>

\* ----------------------------------------------------------------- status

\* Lines 158-166: the data call_one returns for the outcome o of
\* call_backend: the decoded body of a 200 answer, whatever JSON value it
\* is, and an ERROR entry for every failure.
status_call_one(o) ==
    IF o.kind = "raise"
    THEN JsonObject([status |-> "ERROR", detail |-> "exception"])
    ELSE IF o.status_code = 200
    THEN IF o.json.ok
         THEN o.json
         ELSE JsonObject([status |-> "ERROR", detail |-> "exception"])
    ELSE JsonObject([status |-> "ERROR", detail |-> "text"])

\* Line 171: {"port": port, **data} for a dict data.
status_entry(port, data) ==
    [k \in {"port"} \cup DOMAIN data |->
        IF k \in DOMAIN data THEN data[k] ELSE port]

\* Lines 174-182: the aggregate of the backends' entries.
status_aggregate(backend_statuses) ==
    LET statuses == [i \in 1..Len(backend_statuses) |->
                        IF "status" \in DOMAIN backend_statuses[i]
                        THEN backend_statuses[i].status
                        ELSE "UNKNOWN"]
        all(s) == \A i \in 1..Len(statuses) : statuses[i] = s
        any(s) == \E i \in 1..Len(statuses) : statuses[i] = s
    IN  IF all("GENERATING") THEN "GENERATING"
        ELSE IF any("GENERATING") THEN "MIXED"
        ELSE IF all("IDLE") THEN "IDLE"
        ELSE "MIXED"

\* Lines 184-187: the handler's answer.
status_return(backend_statuses) ==
    [code |-> 200,
     data |-> [status |-> status_aggregate(backend_statuses),
               backends |-> backend_statuses]]

\* Lines 152-169: snapshot the healthy backends; NO_BACKENDS if there are
\* none, else start one call per backend of the snapshot.
StatusStart(r) ==
    /\ Fresh(r)
    /\ OneFanout(r)
    /\ LET backends == get_healthy_backends
       IN  IF backends = <<>>
           THEN req' = [req EXCEPT ![r] =
                    [IdleReq EXCEPT !.pc = "done", !.op = "status",
                                    !.exit = "returned",
                                    !.response =
                                        [code |-> 200,
                                         data |-> [status |-> "NO_BACKENDS",
                                                   backends |-> <<>>]]]]
           ELSE req' = [req EXCEPT ![r] =
                    [IdleReq EXCEPT !.pc = "awaiting", !.op = "status",
                                    !.backends = backends,
                                    !.pending = 1..Len(backends),
                                    !.sent = [i \in 1..Len(backends) |->
                                        [port |-> backends[i], path |-> "status"]]]]
    /\ UNCHANGED <<vllm_healthy, vllm_counts, poc_status_by_port, sampler>>

\* Lines 169-187: the next call to complete is the i-th.  Its data is
\* spread into a dict (line 171), which raises TypeError when the data is
\* no mapping; nothing catches that, and the handler ends with it.
StatusComplete(r, i, o) ==
    /\ req[r].op = "status"
    /\ req[r].pc = "awaiting"
    /\ i \in req[r].pending
    /\ LET data == status_call_one(o)
           pending == req[r].pending \ {i}
       IN  IF ~data.isobj
           THEN req' = [req EXCEPT
                    ![r].got = Append(@, Got(i, o)),
                    ![r].pc = "done", ![r].exit = "unhandled",
                    ![r].response = [code |-> 500]]
           ELSE LET backend_statuses ==
                        Append(req[r].results,
                               status_entry(req[r].backends[i], data.obj))
                IN  req' = [req EXCEPT
                        ![r].results = backend_statuses,
                        ![r].pending = pending, ![r].got = Append(@, Got(i, o)),
                        ![r].pc = IF pending = {} THEN "done" ELSE "awaiting",
                        ![r].exit = IF pending = {} THEN "returned" ELSE "none",
                        ![r].response = IF pending = {}
                                        THEN status_return(backend_statuses)
                                        ELSE NoResponse]
    /\ UNCHANGED <<vllm_healthy, vllm_counts, poc_status_by_port, sampler>>

\* ---------------------------------------------------- get_generate_result

\* f"{port}:{inner}", the id generate hands out for a queued request.
Compose(port, inner) == IntToStr(port) \o <<":">> \o inner

\* A port number that is no backend of the pool.
UnknownPort == 5000 + NumBackends + 1

\* The request ids a caller polls with: every composite id generate can hand
\* out, a composite id that names a port outside the pool, an id without
\* ":", an id whose port part is not a number, and one whose port part is
\* empty.
PollIds ==
    {Compose(p, id) : p \in Ports \cup {UnknownPort}, id \in InnerIds}
        \cup {<<"a">>, <<"x", ":", "a">>, <<":", "a">>}

\* Bodies of the backend's GET /api/v1/pow/generate/{id}.
PollBodies ==
    {JsonObject([status |-> "completed", request_id |-> id]) : id \in InnerIds}
        \cup {JsonObject([status |-> "completed"]), JsonNonObject, JsonInvalid}

PollOutcomes ==
    {Raise} \cup {Resp(200, b) : b \in PollBodies}
            \cup {Resp(c, JsonInvalid) : c \in ErrorCodes}

\* Mutant of get_generate_result_parse: the port must be one of
\* get_healthy_backends(), else the id is rejected with 400.
get_generate_result_parse_healthy(request_id) ==
    IF ~HasColon(request_id)
    THEN [ok |-> FALSE,
          response |-> [code |-> 400,
                        detail |-> "Invalid request_id format (expected port:uuid)"]]
    ELSE LET parts == split_once(request_id)
             port == int(parts[1])
         IN  IF ~port.ok \/ port.value \notin SeqRange(get_healthy_backends)
             THEN [ok |-> FALSE,
                   response |-> [code |-> 400,
                                 detail |-> "Invalid port in request_id"]]
             ELSE [ok |-> TRUE, port |-> port.value,
                   backend_request_id |-> parts[2]]

\* Mutant of get_generate_result_parse: int(port_str) inside the try block
\* of line 233, where its ValueError becomes a 502.
get_generate_result_parse_late(request_id) ==
    IF ~HasColon(request_id)
    THEN [ok |-> FALSE,
          response |-> [code |-> 400,
                        detail |-> "Invalid request_id format (expected port:uuid)"]]
    ELSE LET parts == split_once(request_id)
             port == int(parts[1])
         IN  IF ~port.ok
             THEN [ok |-> FALSE, response |-> [code |-> 502, detail |-> "ValueError"]]
             ELSE [ok |-> TRUE, port |-> port.value,
                   backend_request_id |-> parts[2]]

\* Lines 224-231: the port and the backend's request id a composite id
\* names, or the 400 answer for an id that names none.
get_generate_result_parse(request_id) ==
    IF ~HasColon(request_id)
    THEN [ok |-> FALSE,
          response |-> [code |-> 400,
                        detail |-> "Invalid request_id format (expected port:uuid)"]]
    ELSE LET parts == split_once(request_id)
             port == int(parts[1])
         IN  IF ~port.ok
             THEN [ok |-> FALSE,
                   response |-> [code |-> 400,
                                 detail |-> "Invalid port in request_id"]]
             ELSE [ok |-> TRUE, port |-> port.value,
                   backend_request_id |-> parts[2]]

\* Mutant of get_generate_result_rewrite: the backend's answer as it is.
get_generate_result_no_rewrite(request_id, data) == data

\* Lines 241-243: data["request_id"] = request_id on the decoded answer.
get_generate_result_rewrite(request_id, data) ==
    [k \in DOMAIN data \cup {"request_id"} |->
        IF k = "request_id" THEN request_id ELSE data[k]]

\* Mutant of get_generate_result_handle: without the clause "except
\* HTTPException: raise" every HTTPException of the try block ends as a 502.
get_generate_result_handle_no_reraise(request_id, o) ==
    IF o.kind = "raise"
    THEN [response |-> [code |-> 502], exit |-> "exception"]
    ELSE IF o.status_code # 200
    THEN [response |-> [code |-> 502], exit |-> "upstream_error"]
    ELSE IF ~o.json.ok \/ ~o.json.isobj
    THEN [response |-> [code |-> 502], exit |-> "exception"]
    ELSE [response |-> [code |-> 200,
                        data |-> get_generate_result_rewrite(request_id, o.json.obj)],
          exit |-> "ok"]

\* Lines 233-249: what get_generate_result does with the outcome o of
\* call_backend.
get_generate_result_handle(request_id, o) ==
    IF o.kind = "raise"
    THEN \* except Exception: 502
         [response |-> [code |-> 502], exit |-> "exception"]
    ELSE IF o.status_code = 404
    THEN [response |-> [code |-> 404, detail |-> "Request not found"],
          exit |-> "upstream_error"]
    ELSE IF o.status_code # 200
    THEN [response |-> [code |-> o.status_code, detail |-> "text"],
          exit |-> "upstream_error"]
    ELSE IF ~o.json.ok \/ ~o.json.isobj
    THEN \* r.json() raises, or the item assignment on a value that is no
         \* dict raises TypeError: except Exception: 502
         [response |-> [code |-> 502], exit |-> "exception"]
    ELSE [response |-> [code |-> 200,
                        data |-> get_generate_result_rewrite(request_id, o.json.obj)],
          exit |-> "ok"]

\* Lines 224-234: parse the id; 400 if it names no port, else start the call
\* to that port with the backend's own id.
GetGenerateResultStart(r, request_id) ==
    /\ Fresh(r)
    /\ LET p == get_generate_result_parse(request_id)
       IN  IF ~p.ok
           THEN req' = [req EXCEPT ![r] =
                    [IdleReq EXCEPT !.pc = "done", !.op = "get_generate_result",
                                    !.request_id = request_id,
                                    !.exit = "bad_request",
                                    !.response = p.response]]
           ELSE req' = [req EXCEPT ![r] =
                    [IdleReq EXCEPT !.pc = "awaiting", !.op = "get_generate_result",
                                    !.request_id = request_id,
                                    !.port = p.port,
                                    !.sent = <<[port |-> p.port, path |-> "generate/",
                                                id |-> p.backend_request_id]>>]]
    /\ UNCHANGED <<vllm_healthy, vllm_counts, poc_status_by_port, sampler>>

\* Mutant of GetGenerateResultResponse: the handler releases the backend it
\* polled, as generate does.
GetGenerateResultResponseRelease(r, o) ==
    /\ req[r].op = "get_generate_result"
    /\ req[r].pc = "awaiting"
    /\ LET h == get_generate_result_handle(req[r].request_id, o)
       IN  req' = [req EXCEPT ![r].pc = "done", ![r].upstream = o,
                              ![r].response = h.response, ![r].exit = h.exit]
    /\ vllm_counts' = [p \in Ports |->
                          IF p = req[r].port THEN vllm_counts[p] - 1
                          ELSE vllm_counts[p]]
    /\ UNCHANGED <<vllm_healthy, poc_status_by_port, sampler>>

\* Lines 234-249: call_backend returns or raises, and the handler finishes.
GetGenerateResultResponse(r, o) ==
    /\ req[r].op = "get_generate_result"
    /\ req[r].pc = "awaiting"
    /\ LET h == get_generate_result_handle(req[r].request_id, o)
       IN  req' = [req EXCEPT ![r].pc = "done", ![r].upstream = o,
                              ![r].response = h.response, ![r].exit = h.exit]
    /\ UNCHANGED <<vllm_healthy, vllm_counts, poc_status_by_port, sampler>>

\* ------------------------------------------------------ consensus sampler
\* proposals/poc/optimize.py

\* The addresses of get_weights, in order.
Addresses == <<"node1", "node2", "node3">>

\* Python's None, the value get_slot returns when there is no slot.
None == "None"

\* Exceptions a function ends with are values here.
IndexError == "IndexError"

ZeroDivisionError == "ZeroDivisionError"

\* Weight tables: a prefix of the addresses of get_weights, each with a
\* weight of 0..MaxWeight; the empty table is one of them.
WeightTables ==
    UNION {{[k \in 1..n |-> [address |-> Addresses[k], weight |-> w[k]]] :
                w \in [1..n -> 0..MaxWeight]} : n \in 0..Len(Addresses)}

\* The first slot index of a batch.
StartIndices == {0, 1}

\* Values of int.from_bytes(sha256(...).digest()[:8], "big").  The digest is
\* a fixed function of the string hashed; nothing else is known of it, so an
\* evaluation draws it as an arbitrary function of the slot index.  The
\* values reach every residue of every total weight and go beyond it.
HashValues == 0..(Len(Addresses) * MaxWeight)

\* sum(w for _, w in all_weights)
RECURSIVE total_weight_of(_)
total_weight_of(all_weights) ==
    IF all_weights = <<>> THEN 0
    ELSE all_weights[1].weight + total_weight_of(Tail(all_weights))

\* Lines 23-25: the random value of a slot; sha[slot_idx] is the hash of
\* f"{app_hash}{host_address}{slot_idx}" for the evaluation's app_hash and
\* host_address.
slot_random_val(sha, slot_idx, total_weight) == sha[slot_idx] % total_weight

RECURSIVE find_slot_address_le_from(_, _, _, _)
find_slot_address_le_from(random_val, all_weights, k, cumulative) ==
    IF k > Len(all_weights)
    THEN IF all_weights = <<>> THEN IndexError
         ELSE all_weights[Len(all_weights)].address
    ELSE LET c == cumulative + all_weights[k].weight
         IN  IF random_val <= c THEN all_weights[k].address
             ELSE find_slot_address_le_from(random_val, all_weights, k + 1, c)

\* Mutant of find_slot_address: "random_val <= cumulative" at line 36.
find_slot_address_le(random_val, all_weights) ==
    find_slot_address_le_from(random_val, all_weights, 1, 0)

RECURSIVE find_slot_address_no_sum_from(_, _, _)
find_slot_address_no_sum_from(random_val, all_weights, k) ==
    IF k > Len(all_weights)
    THEN IF all_weights = <<>> THEN IndexError
         ELSE all_weights[Len(all_weights)].address
    ELSE IF random_val < all_weights[k].weight THEN all_weights[k].address
         ELSE find_slot_address_no_sum_from(random_val, all_weights, k + 1)

\* Mutant of find_slot_address: "cumulative = weight" at line 35, so that
\* each entry's own weight is compared and not the running sum.
find_slot_address_no_sum(random_val, all_weights) ==
    find_slot_address_no_sum_from(random_val, all_weights, 1)

\* Lines 34-38: the loop from entry k on, with the cumulative weight of the
\* entries before k; after the last entry the fallback to the last address.
RECURSIVE find_slot_address_from(_, _, _, _)
find_slot_address_from(random_val, all_weights, k, cumulative) ==
    IF k > Len(all_weights)
    THEN IF all_weights = <<>> THEN IndexError
         ELSE all_weights[Len(all_weights)].address
    ELSE LET c == cumulative + all_weights[k].weight
         IN  IF random_val < c THEN all_weights[k].address
             ELSE find_slot_address_from(random_val, all_weights, k + 1, c)

\* Lines 28-38.
find_slot_address(random_val, all_weights) ==
    find_slot_address_from(random_val, all_weights, 1, 0)

\* Lines 33-38 again, for the return statement the call ends with: "found"
\* for line 37 inside the loop, "fallback" for line 38 after it.
RECURSIVE find_slot_address_return_from(_, _, _, _)
find_slot_address_return_from(random_val, all_weights, k, cumulative) ==
    IF k > Len(all_weights) THEN "fallback"
    ELSE LET c == cumulative + all_weights[k].weight
         IN  IF random_val < c THEN "found"
             ELSE find_slot_address_return_from(random_val, all_weights, k + 1, c)

find_slot_address_return(random_val, all_weights) ==
    find_slot_address_return_from(random_val, all_weights, 1, 0)

\* Mutant of get_slot: without the check of lines 52-53 the modulo of line
\* 25 divides by zero.
get_slot_unguarded(sha, all_weights, slot_idx) ==
    LET total_weight == total_weight_of(all_weights)
    IN  IF total_weight = 0 THEN ZeroDivisionError
        ELSE find_slot_address(slot_random_val(sha, slot_idx, total_weight),
                               all_weights)

\* Lines 41-55.
get_slot(sha, all_weights, slot_idx) ==
    LET total_weight == total_weight_of(all_weights)
    IN  IF total_weight = 0 THEN None
        ELSE find_slot_address(slot_random_val(sha, slot_idx, total_weight),
                               all_weights)

\* A Python list with the values of f, a function on 1..n.
AsList(f) == SubSeq(f, 1, Len(f))

\* The order of tuples (random_val, i).
TupleLess(a, b) == a[1] < b[1] \/ (a[1] = b[1] /\ a[2] < b[2])

\* Line 91: randoms.sort().  The tuples differ in i, so each has its place:
\* after the tuples that are less than it.
Sort(s) ==
    LET before == AsList([j \in 1..Len(s) |->
                      Cardinality({i \in 1..Len(s) : TupleLess(s[i], s[j])})])
    IN  AsList([r \in 1..Len(s) |-> s[CHOOSE j \in 1..Len(s) : before[j] = r - 1]])

\* Lines 98-101: the while loop stops at the first rand_idx that is beyond
\* randoms or whose random value is not below cumulative; the entries it
\* passed have their positions of result set to address.  Positions of
\* result count from 1 here.
get_slots_assign(randoms, cumulative, address, rand_idx, result) ==
    LET stops == {j \in rand_idx..Len(randoms) : ~(randoms[j][1] < cumulative)}
        stop == IF stops = {} THEN Len(randoms) + 1
                ELSE CHOOSE j \in stops : \A i \in stops : j <= i
        passed == {randoms[j][2] + 1 : j \in rand_idx..(stop - 1)}
    IN  [rand_idx |-> stop,
         result |-> AsList([p \in DOMAIN result |->
                        IF p \in passed THEN address ELSE result[p]])]

\* Lines 96-103: the sweep over the weight table from entry k on.
RECURSIVE get_slots_sweep(_, _, _, _, _, _)
get_slots_sweep(all_weights, randoms, k, cumulative, rand_idx, result) ==
    IF k > Len(all_weights) THEN result
    ELSE LET c == cumulative + all_weights[k].weight
             a == get_slots_assign(randoms, c, all_weights[k].address,
                                   rand_idx, result)
         IN  get_slots_sweep(all_weights, randoms, k + 1, c, a.rand_idx, a.result)

\* Mutant of get_slots_randoms: the hash is not reduced modulo the total
\* weight.
get_slots_randoms_unreduced(sha, total_weight, n_slots, start_idx) ==
    AsList([j \in 1..n_slots |-> <<sha[start_idx + (j - 1)], j - 1>>])

\* Lines 85-89: the tuples (random_val, i) for i in range(n_slots).
get_slots_randoms(sha, total_weight, n_slots, start_idx) ==
    AsList([j \in 1..n_slots |->
        <<slot_random_val(sha, start_idx + (j - 1), total_weight), j - 1>>])

\* Mutant of get_slots: without the sort of line 91.
get_slots_unsorted(sha, all_weights, n_slots, start_idx) ==
    LET total_weight == total_weight_of(all_weights)
    IN  IF total_weight = 0 THEN <<>>
        ELSE get_slots_sweep(all_weights,
                             get_slots_randoms(sha, total_weight, n_slots, start_idx),
                             1, 0, 1, [j \in 1..n_slots |-> None])

\* Mutant of get_slots: line 83 returns the result of line 92, as get_slot
\* returns None.
get_slots_none_filled(sha, all_weights, n_slots, start_idx) ==
    LET total_weight == total_weight_of(all_weights)
    IN  IF total_weight = 0 THEN [j \in 1..n_slots |-> None]
        ELSE get_slots_sweep(all_weights,
                             Sort(get_slots_randoms(sha, total_weight, n_slots, start_idx)),
                             1, 0, 1, [j \in 1..n_slots |-> None])

\* Lines 58-103.
get_slots(sha, all_weights, n_slots, start_idx) ==
    LET total_weight == total_weight_of(all_weights)
    IN  IF total_weight = 0 THEN <<>>
        ELSE get_slots_sweep(all_weights,
                             Sort(get_slots_randoms(sha, total_weight, n_slots, start_idx)),
                             1, 0, 1, [j \in 1..n_slots |-> None])

\* No evaluation of the sampler.
IdleSampler ==
    [pc |-> "idle", all_weights |-> <<>>, sha |-> <<>>, start_idx |-> 0,
     n_slots |-> 0, slots |-> <<>>, slot_idx |-> 0, slot |-> None]

\* The inputs of an evaluation: a weight table, a batch of n_slots slot
\* indices from start_idx on, and the hash of each of these indices.
SamplerStart(w, s, n, h) ==
    [IdleSampler EXCEPT !.pc = "start", !.all_weights = w, !.sha = h,
                        !.start_idx = s, !.n_slots = n]

\* get_slots(app_hash, host_address, all_weights, n_slots, start_idx)
GetSlots ==
    /\ sampler.pc = "start"
    /\ sampler' = [sampler EXCEPT
            !.pc = "batch",
            !.slots = get_slots(sampler.sha, sampler.all_weights,
                                sampler.n_slots, sampler.start_idx)]
    /\ UNCHANGED <<vllm_healthy, vllm_counts, poc_status_by_port, req>>

\* get_slot(app_hash, host_address, all_weights, slot_idx) for an index of
\* the batch.
GetSlot(slot_idx) ==
    /\ sampler.pc = "batch"
    /\ slot_idx \in DOMAIN sampler.sha
    /\ sampler' = [sampler EXCEPT
            !.pc = "single", !.slot_idx = slot_idx,
            !.slot = get_slot(sampler.sha, sampler.all_weights, slot_idx)]
    /\ UNCHANGED <<vllm_healthy, vllm_counts, poc_status_by_port, req>>

\* ---------------------------------------------------------- validate_host
\* proposals/poc/optimize.py, lines 105-153

\* Line 5.
N_SLOTS == 64

\* Python's True and False: the votes and the verdicts of validate_host.
True == "True"

False == "False"

\* The weight tables of an evaluation, as the weights of a prefix of the
\* addresses of get_weights: the table of get_weights itself, the empty
\* table, a table without weight, tables whose total weight is below, at
\* and just above N_SLOTS, and a table with a narrow middle range.
ConsensusWeights ==
    {<<100, 200, 300>>, <<>>, <<0, 0>>, <<10, 20, 30>>, <<32, 32>>, <<0, 32, 33>>,
     <<96, 8, 96>>}

prev_weights_of(w) ==
    [k \in 1..Len(w) |-> [address |-> Addresses[k], weight |-> w[k]]]

\* get_vote_from is a stub in the source ("just example for demo"); its
\* declared result is bool|None, and an evaluation draws it as an arbitrary
\* function of the address.
VoteFunctions == [{Addresses[k] : k \in 1..Len(Addresses)} -> {True, False, None}]

\* app_hash and host enter an evaluation only through the digest of line 24.
\* The evaluations are run with digests base + slot_idx * stride: constant
\* ones, ones that walk through the weight ranges, and ones that alternate
\* between two or cycle through four of them.
Digests ==
    {[base |-> 0, stride |-> 0], [base |-> 0, stride |-> 1],
     [base |-> 1, stride |-> 1], [base |-> 268, stride |-> 1],
     [base |-> 0, stride |-> 30], [base |-> 0, stride |-> 150],
     [base |-> 0, stride |-> 300], [base |-> 300, stride |-> 300],
     [base |-> 104, stride |-> 3]}

\* Lines 23-24 for the app_hash and host of seed, as a function of slot_idx.
digest_of(seed) == [slot_idx \in Nat |-> seed.base + slot_idx * seed.stride]

\* Lines 105-109 for the vote function of the evaluation; an address that
\* is none has no validator to vote.
get_vote_from(votes, host) ==
    IF host \in DOMAIN votes THEN votes[host] ELSE None

\* Neither branch of lines 130-133 or 148-151 returns.
Undecided == "undecided"

\* Mutant of validate_host_votes: the dict is created once, outside the
\* function, and a call finds it as the call before left it.
validate_host_votes_kept(f) == f.validator_votes

\* Line 118.
validate_host_votes(f) == <<>>

\* Mutant of validate_host_vote: without the test of lines 120 and 140.
validate_host_vote_uncached(f, slot) ==
    [f EXCEPT !.validator_votes = (slot :> get_vote_from(f.votes, slot)) @@ @,
              !.queried = Append(@, slot)]

\* Lines 120-121 and 140-141 on the record f of the call: the vote of slot
\* is fetched unless the cache has it.  queried lists the calls of
\* get_vote_from in order.
validate_host_vote(f, slot) ==
    IF slot \notin DOMAIN f.validator_votes
    THEN [f EXCEPT !.validator_votes = (slot :> get_vote_from(f.votes, slot)) @@ @,
                   !.queried = Append(@, slot)]
    ELSE f

\* Mutant of validate_host_count: a slot whose validator gave no vote counts
\* for neither side.
validate_host_count_none_skipped(f, validator) ==
    IF f.validator_votes[validator] = True
    THEN [f EXCEPT !.voted_yes = @ + 1]
    ELSE IF f.validator_votes[validator] = None
         THEN f
         ELSE [f EXCEPT !.voted_no = @ + 1]

\* Mutant of validate_host_count: the branches exchanged.
validate_host_count_swapped(f, validator) ==
    IF f.validator_votes[validator] = True
    THEN [f EXCEPT !.voted_no = @ + 1]
    ELSE [f EXCEPT !.voted_yes = @ + 1]

\* Lines 126-129 and 142-145: one slot counts for yes if its validator's
\* vote is true, and for no otherwise.
validate_host_count(f, validator) ==
    IF f.validator_votes[validator] = True
    THEN [f EXCEPT !.voted_yes = @ + 1]
    ELSE [f EXCEPT !.voted_no = @ + 1]

\* Mutant of validate_host_verdict: ">=" for ">".
validate_host_verdict_ge(voted_yes, voted_no, n) ==
    IF 2 * voted_yes >= n THEN True
    ELSE IF 2 * voted_no >= n THEN False
    ELSE Undecided

\* Lines 130-133 with n = N_SLOTS, lines 148-151 with n = slot_idx:
\* "voted_yes > n / 2" is a comparison with the exact half of n.
validate_host_verdict(voted_yes, voted_no, n) ==
    IF 2 * voted_yes > n THEN True
    ELSE IF 2 * voted_no > n THEN False
    ELSE Undecided

\* Mutant of validate_host_decide: a batch without a majority is returned
\* as False.
validate_host_decide_tie_false(f) ==
    LET verdict == validate_host_verdict(f.voted_yes, f.voted_no, N_SLOTS)
        g == [f EXCEPT !.half_of = N_SLOTS]
    IN  IF verdict # Undecided
        THEN [g EXCEPT !.pc = "returned", !.result = verdict, !.exit = "batch"]
        ELSE [g EXCEPT !.pc = "returned", !.result = False, !.exit = "batch"]

\* Lines 130-137: phase 1 returns, or leaves slot_idx at N_SLOTS for the
\* loop of line 138.  half_of is the number the votes were compared with
\* the half of.
validate_host_decide(f) ==
    LET verdict == validate_host_verdict(f.voted_yes, f.voted_no, N_SLOTS)
        g == [f EXCEPT !.half_of = N_SLOTS]
    IN  IF verdict # Undecided
        THEN [g EXCEPT !.pc = "returned", !.result = verdict, !.exit = "batch"]
        ELSE [g EXCEPT !.pc = "fallback", !.slot_idx = N_SLOTS]

\* Mutant of validate_host_continues: "<=" for "<".
validate_host_continues_le(slot_idx, total_weight) == slot_idx <= total_weight

\* Line 138.
validate_host_continues(slot_idx, total_weight) == slot_idx < total_weight

\* Mutant of validate_host_fallback: the comparisons of lines 148-151 are
\* those of lines 130-133, with N_SLOTS.
validate_host_fallback_fixed(f) ==
    LET next_slot == get_slot(digest_of(f.seed), f.prev_weights, f.slot_idx)
        counted == validate_host_count(validate_host_vote(f, next_slot), next_slot)
        verdict == validate_host_verdict(counted.voted_yes, counted.voted_no, N_SLOTS)
        g == [counted EXCEPT !.slot_idx = f.slot_idx + 1,
                             !.sampled = Append(@, f.slot_idx),
                             !.half_of = N_SLOTS]
    IN  IF verdict # Undecided
        THEN [g EXCEPT !.pc = "returned", !.result = verdict, !.exit = "fallback"]
        ELSE g

\* Mutant of validate_host_fallback: the comparisons of lines 148-151 are
\* made with the index after the next one.
validate_host_fallback_off_by_one(f) ==
    LET next_slot == get_slot(digest_of(f.seed), f.prev_weights, f.slot_idx)
        counted == validate_host_count(validate_host_vote(f, next_slot), next_slot)
        slot_idx == f.slot_idx + 1
        verdict == validate_host_verdict(counted.voted_yes, counted.voted_no,
                                         slot_idx + 1)
        g == [counted EXCEPT !.slot_idx = slot_idx,
                             !.sampled = Append(@, f.slot_idx),
                             !.half_of = slot_idx]
    IN  IF verdict # Undecided
        THEN [g EXCEPT !.pc = "returned", !.result = verdict, !.exit = "fallback"]
        ELSE g

\* Lines 139-151: one iteration of the loop.  sampled lists the indices
\* given to get_slot.
validate_host_fallback(f) ==
    LET next_slot == get_slot(digest_of(f.seed), f.prev_weights, f.slot_idx)
        counted == validate_host_count(validate_host_vote(f, next_slot), next_slot)
        slot_idx == f.slot_idx + 1
        verdict == validate_host_verdict(counted.voted_yes, counted.voted_no, slot_idx)
        g == [counted EXCEPT !.slot_idx = slot_idx,
                             !.sampled = Append(@, f.slot_idx),
                             !.half_of = slot_idx]
    IN  IF verdict # Undecided
        THEN [g EXCEPT !.pc = "returned", !.result = verdict, !.exit = "fallback"]
        ELSE g

\* What a call leaves to compare the next call with.
ValidateHostOutcome(f) ==
    [slots |-> f.slots, sampled |-> f.sampled, queried |-> f.queried,
     result |-> f.result, exit |-> f.exit]

\* A call validate_host(app_hash, host) about to run line 116, for a weight
\* table, a digest and a vote function.  The locals hold no value of the
\* call yet; k is the position of a for loop in slots.
ValidateHostCall(w, seed, votes) ==
    [pc |-> "start", weights |-> w, seed |-> seed, votes |-> votes,
     prev_weights |-> <<>>, slots |-> <<>>, validator_votes |-> <<>>, k |-> 0,
     queried |-> <<>>, voted_yes |-> 0, voted_no |-> 0, slot_idx |-> 0,
     sampled |-> <<>>, half_of |-> 0, result |-> None, exit |-> "",
     evaluation |-> 1, first |-> <<>>]

\* Lines 116-118.
ValidateHostSlots ==
    /\ sampler.pc = "start"
    /\ "votes" \in DOMAIN sampler
    /\ LET prev_weights == prev_weights_of(sampler.weights)
       IN  sampler' = [sampler EXCEPT
               !.pc = "fetch", !.k = 1,
               !.prev_weights = prev_weights,
               !.slots = get_slots(digest_of(sampler.seed), prev_weights, N_SLOTS, 0),
               !.validator_votes = validate_host_votes(sampler)]
    /\ UNCHANGED <<vllm_healthy, vllm_counts, poc_status_by_port, req>>

\* Lines 119-121: one iteration of the loop.
ValidateHostFetch ==
    /\ sampler.pc = "fetch"
    /\ sampler.k <= Len(sampler.slots)
    /\ sampler' = [validate_host_vote(sampler, sampler.slots[sampler.k])
                       EXCEPT !.k = @ + 1]
    /\ UNCHANGED <<vllm_healthy, vllm_counts, poc_status_by_port, req>>

\* Lines 119 and 123-124: the loop is over and the counts start at 0.
ValidateHostFetched ==
    /\ sampler.pc = "fetch"
    /\ sampler.k > Len(sampler.slots)
    /\ sampler' = [sampler EXCEPT !.pc = "tally", !.k = 1,
                                  !.voted_yes = 0, !.voted_no = 0]
    /\ UNCHANGED <<vllm_healthy, vllm_counts, poc_status_by_port, req>>

\* Lines 125-129: one iteration of the loop.
ValidateHostTally ==
    /\ sampler.pc = "tally"
    /\ sampler.k <= Len(sampler.slots)
    /\ sampler' = [validate_host_count(sampler, sampler.slots[sampler.k])
                       EXCEPT !.k = @ + 1]
    /\ UNCHANGED <<vllm_healthy, vllm_counts, poc_status_by_port, req>>

\* Lines 125 and 130-137: the loop is over and phase 1 decides.
ValidateHostDecide ==
    /\ sampler.pc = "tally"
    /\ sampler.k > Len(sampler.slots)
    /\ sampler' = validate_host_decide(sampler)
    /\ UNCHANGED <<vllm_healthy, vllm_counts, poc_status_by_port, req>>

\* Lines 138-151: the loop condition holds and one iteration runs.
ValidateHostFallback ==
    /\ sampler.pc = "fallback"
    /\ validate_host_continues(sampler.slot_idx, total_weight_of(sampler.prev_weights))
    /\ sampler' = validate_host_fallback(sampler)
    /\ UNCHANGED <<vllm_healthy, vllm_counts, poc_status_by_port, req>>

\* Lines 138 and 153: the loop condition fails and the call returns None.
ValidateHostExhausted ==
    /\ sampler.pc = "fallback"
    /\ ~validate_host_continues(sampler.slot_idx, total_weight_of(sampler.prev_weights))
    /\ sampler' = [sampler EXCEPT !.pc = "returned", !.result = None,
                                  !.exit = "exhausted"]
    /\ UNCHANGED <<vllm_healthy, vllm_counts, poc_status_by_port, req>>

\* The caller calls validate_host once more with the same arguments, weight
\* table and vote function.  The memory of the locals is as the first call
\* left it until the new call assigns them.
ValidateHostAgain ==
    /\ sampler.pc = "returned"
    /\ sampler.evaluation = 1
    /\ sampler' = [sampler EXCEPT !.pc = "start", !.evaluation = 2,
                                  !.first = ValidateHostOutcome(sampler),
                                  !.queried = <<>>, !.sampled = <<>>,
                                  !.half_of = 0, !.result = None, !.exit = ""]
    /\ UNCHANGED <<vllm_healthy, vllm_counts, poc_status_by_port, req>>

\* ---------------------------------------------------------- specifications

Init ==
    /\ vllm_healthy = [p \in Ports |-> TRUE]
    /\ vllm_counts = [p \in Ports |-> 0]
    /\ poc_status_by_port = [p \in Ports |-> "IDLE"]
    /\ req = [r \in Reqs |-> IdleReq]
    /\ sampler = IdleSampler

Environment ==
    \/ \E p \in Ports : SetHealthy(p)
    \/ \E p \in Ports, s \in BusyStates : SetPocStatus(p, s)

NextGenerate ==
    \/ Environment
    \/ \E r \in Reqs : GenerateAcquire(r)
    \/ \E r \in Reqs, o \in GenerateOutcomes : GenerateResponse(r, o)
    \/ \E r \in Reqs : GenerateCancel(r)

\* Concurrent generate requests against a changing pool.
SpecGenerate == Init /\ [][NextGenerate]_vars

Indices == 1..NumBackends

NextFanout ==
    \/ \E p \in Ports : SetHealthy(p)
    \/ \E r \in Reqs : InitGenerateStart(r)
    \/ \E r \in Reqs, i \in Indices, o \in AckOutcomes : InitGenerateComplete(r, i, o)
    \/ \E r \in Reqs : StopStart(r)
    \/ \E r \in Reqs, i \in Indices, o \in AckOutcomes : StopComplete(r, i, o)
    \/ \E r \in Reqs : StatusStart(r)
    \/ \E r \in Reqs, i \in Indices, o \in StatusOutcomes : StatusComplete(r, i, o)

\* One fan-out request against a pool whose health changes.
SpecFanout == Init /\ [][NextFanout]_vars

NextStart ==
    \/ Environment
    \/ \E r \in Reqs : GenerateAcquire(r)
    \/ \E r \in Reqs : InitGenerateStart(r)

\* Generate and init_generate requests arriving at a changing pool, each
\* followed up to its first await.
SpecStart == Init /\ [][NextStart]_vars

NextPoll ==
    \/ \E p \in Ports : SetHealthy(p)
    \/ \E r \in Reqs : GenerateAcquire(r)
    \/ \E r \in Reqs, o \in GenerateOutcomes : GenerateResponse(r, o)
    \/ \E r \in Reqs, id \in PollIds : GetGenerateResultStart(r, id)
    \/ \E r \in Reqs, o \in PollOutcomes : GetGenerateResultResponse(r, o)

\* Generate requests and polls against a pool whose health changes.
SpecPoll == Init /\ [][NextPoll]_vars

\* A backend stops, or cannot be reached.
StopOutcomes == {Raise, Resp(200, JsonObject([status |-> "OK"]))}

NextStop ==
    \/ \E p \in Ports : SetHealthy(p)
    \/ \E r \in Reqs : GenerateAcquire(r)
    \/ \E r \in Reqs, o \in GenerateOutcomes : GenerateResponse(r, o)
    \/ \E r \in Reqs : StopStart(r)
    \/ \E r \in Reqs, i \in Indices, o \in StopOutcomes : StopComplete(r, i, o)

\* A stop and a generate request, in either order, against a pool whose
\* health changes.
SpecStop == Init /\ [][NextStop]_vars

Next == NextGenerate \/ NextFanout \/ NextPoll

Spec == Init /\ [][Next]_vars

\* The sampler on its own: the router is at rest, and the inputs of the
\* evaluation are drawn at the start.
InitSampler ==
    /\ vllm_healthy = [p \in Ports |-> TRUE]
    /\ vllm_counts = [p \in Ports |-> 0]
    /\ poc_status_by_port = [p \in Ports |-> "IDLE"]
    /\ req = [r \in Reqs |-> IdleReq]
    /\ \E w \in WeightTables, s \in StartIndices, n \in 0..MaxSlots :
            \E h \in [s..(s + n - 1) -> HashValues] :
                sampler = SamplerStart(w, s, n, h)

NextSampler ==
    \/ GetSlots
    \/ \E slot_idx \in 0..MaxSlots : GetSlot(slot_idx)

SpecSampler == InitSampler /\ [][NextSampler]_vars

\* validate_host on its own: the router is at rest; the weight table, the
\* digest and the vote function of the evaluation are drawn at the start.
InitConsensus ==
    /\ vllm_healthy = [p \in Ports |-> TRUE]
    /\ vllm_counts = [p \in Ports |-> 0]
    /\ poc_status_by_port = [p \in Ports |-> "IDLE"]
    /\ req = [r \in Reqs |-> IdleReq]
    /\ \E w \in ConsensusWeights, seed \in Digests, votes \in VoteFunctions :
            sampler = ValidateHostCall(w, seed, votes)

\* The steps of a call after line 118.
ValidateHostLoops ==
    \/ ValidateHostFetch
    \/ ValidateHostFetched
    \/ ValidateHostTally
    \/ ValidateHostDecide
    \/ ValidateHostFallback
    \/ ValidateHostExhausted

NextConsensus ==
    \/ ValidateHostSlots
    \/ ValidateHostLoops
    \/ ValidateHostAgain

SpecConsensus == InitConsensus /\ [][NextConsensus]_vars

\* validate_host is sequential code: a call that is in its loops takes its
\* next step.
SpecConsensusFair == SpecConsensus /\ WF_vars(ValidateHostLoops)

\* One validation request and its answer: the detector's, or none when the
\* backend cannot be reached.
NextValidate ==
    \/ GenerateValidation(1)
    \/ GenerateValidated(1)
    \/ GenerateResponse(1, Raise)

SpecValidate == Init /\ [][NextValidate]_vars

\* ------------------------------------------------------------- properties

IsGenerate(r) == req[r].op = "generate"

\* The requests that hold port p: they acquired it and have not released it.
Holders(p) ==
    {r \in Reqs : IsGenerate(r) /\ req[r].port = p /\ req[r].releases = 0}

\* The exit paths of generate that follow an answer or an exception of
\* call_backend.
AnsweredExits == {"ok", "upstream_error", "exception"}

\* C1: a generate request that has acquired a backend has not released it
\* while it awaits the backend, and has released it exactly once when it has
\* left by a 200 answer, by a non-200 answer or by an exception of the call
\* or of the decoding; a backend's in-flight count is the number of requests
\* that hold it.
C1_ReleasedOncePerExit ==
    /\ \A r \in Reqs :
        IsGenerate(r) =>
            /\ req[r].pc = "awaiting" => req[r].releases = 0
            /\ (req[r].pc = "done" /\ req[r].exit \in AnsweredExits)
                    => req[r].releases = 1
    /\ \A p \in Ports : vllm_counts[p] = Cardinality(Holders(p))

\* One request has left by a non-200 answer and one by a failed decoding of
\* a 200 answer, and no backend is held any more.
C1_Witness ==
    /\ req[1].pc = "done" /\ req[1].exit = "upstream_error"
    /\ req[2].pc = "done" /\ req[2].exit = "exception"
    /\ req[2].upstream = Resp(200, JsonInvalid)
    /\ req[1].releases = 1 /\ req[2].releases = 1
    /\ \A p \in Ports : vllm_counts[p] = 0

\* C2: once no generate request is in progress any more (each has returned,
\* failed or been cancelled), every backend's in-flight count is back at its
\* initial value, 0.
C2_NoLoadLeak ==
    (\A r \in Reqs : req[r].pc # "awaiting")
        => \A p \in Ports : vllm_counts[p] = 0

\* C3: the backend a generate request acquires is healthy; it is not
\* GENERATING if some healthy backend is not GENERATING; and no healthy
\* backend of the same preference (GENERATING or not) has a lower in-flight
\* count.
C3_PickPolicy ==
    [][\A r \in Reqs :
        (req[r].pc = "idle" /\ req'[r].op = "generate" /\ req'[r].pc = "awaiting")
        => LET p == req'[r].port
               healthy == {q \in Ports : vllm_healthy[q]}
               busy(q) == poc_status_by_port[q] = "GENERATING"
           IN  /\ p \in healthy
               /\ (\E q \in healthy : ~busy(q)) => ~busy(p)
               /\ \A q \in healthy :
                    (busy(q) = busy(p)) => vllm_counts[p] <= vllm_counts[q]
               /\ vllm_counts' = [vllm_counts EXCEPT ![p] = @ + 1]
      ]_vars

\* Both requests were routed to 5002 although 5001 is healthy and carries no
\* load: 5001 is GENERATING.
C3_Witness ==
    /\ \A r \in Reqs : IsGenerate(r) /\ req[r].pc = "awaiting"
                       /\ req[r].port = vllm_backend_ports[2]
    /\ vllm_healthy[vllm_backend_ports[1]]
    /\ poc_status_by_port[vllm_backend_ports[1]] = "GENERATING"
    /\ vllm_counts[vllm_backend_ports[1]] = 0
    /\ vllm_counts[vllm_backend_ports[2]] = 2

\* C4: a generate request that starts while some backend is healthy sends
\* its request to one healthy backend and awaits it, also when every healthy
\* backend is GENERATING; from then on it sends nothing more: an answer, an
\* error or an exception ends it.
C4_ForwardsToExactlyOne ==
    [][\A r \in Reqs :
        /\ (req[r].pc = "idle" /\ req'[r].op = "generate"
            /\ get_healthy_backends # <<>>)
           => /\ req'[r].pc = "awaiting"
              /\ Len(req'[r].sent) = 1
              /\ req'[r].sent[1].port = req'[r].port
              /\ req'[r].port \in SeqRange(get_healthy_backends)
        /\ (IsGenerate(r) /\ req[r].pc = "awaiting" /\ req'[r] # req[r])
           => /\ req'[r].pc = "done"
              /\ req'[r].sent = req[r].sent
              /\ req'[r].port = req[r].port
        /\ (IsGenerate(r) /\ req[r].pc = "done") => req'[r] = req[r]
      ]_vars

\* A request ended by an upstream error after one call, with another
\* healthy backend at hand; the other request was routed while every
\* healthy backend was GENERATING.
C4_Witness ==
    /\ IsGenerate(1) /\ req[1].pc = "done" /\ req[1].exit = "upstream_error"
    /\ Len(req[1].sent) = 1
    /\ IsGenerate(2) /\ req[2].pc = "awaiting" /\ Len(req[2].sent) = 1
    /\ \A p \in Ports : vllm_healthy[p] /\ poc_status_by_port[p] = "GENERATING"

\* C5: a generate or init_generate request that starts while no backend is
\* healthy ends at once with 503, has sent nothing to any backend and leaves
\* every in-flight count as it was.
C5_NoBackends503 ==
    [][\A r \in Reqs :
        (req[r].pc = "idle" /\ req'[r].op \in {"generate", "init_generate"}
         /\ get_healthy_backends = <<>>)
        => /\ req'[r].pc = "done"
           /\ req'[r].response.code = 503
           /\ req'[r].sent = <<>>
           /\ req'[r].port = 0
           /\ vllm_counts' = vllm_counts
      ]_vars

\* Both kinds of request have met an empty healthy set.
C5_Witness ==
    /\ \A p \in Ports : ~vllm_healthy[p]
    /\ \E r, q \in Reqs :
        /\ req[r].op = "generate" /\ req[r].response.code = 503
        /\ req[q].op = "init_generate" /\ req[q].response.code = 503
        /\ req[r].sent = <<>> /\ req[q].sent = <<>>

\* The HTTP answer was 200.
Is200(o) == o.kind = "response" /\ o.status_code = 200

\* The HTTP answer was 200 and its body decoded.
Is200Json(o) == Is200(o) /\ o.json.ok

\* The outcomes recorded so far, as a set.
GotSet(r) == SeqRange(req[r].got)

\* The ports of a list of result or error entries, in order.
PortsOf(entries) == [k \in 1..Len(entries) |-> entries[k].port]

\* The ports of the recorded outcomes that satisfy Test, in completion order.
GotPorts(r, Test(_)) ==
    PortsOf(SelectSeq([k \in 1..Len(req[r].got) |->
                          [port |-> req[r].backends[req[r].got[k].index],
                           outcome |-> req[r].got[k].outcome]],
                      LAMBDA e : Test(e.outcome)))

\* C6: init_generate sends one request to each backend of the healthy
\* snapshot taken when it starts; the request to the backend at position i
\* (from 0) carries group_id = i and n_groups = the size of the snapshot, so
\* the group ids are 0..n-1, each once; what was sent never changes
\* afterwards, whatever happens to the backends' health.
C6_GroupIdInjection ==
    [][\A r \in Reqs :
        /\ (req[r].pc = "idle" /\ req'[r].op = "init_generate"
            /\ get_healthy_backends # <<>>)
           => LET snapshot == get_healthy_backends
                  n == Len(snapshot)
              IN  /\ req'[r].backends = snapshot
                  /\ Len(req'[r].sent) = n
                  /\ \A i \in 1..n :
                        /\ req'[r].sent[i].port = snapshot[i]
                        /\ req'[r].sent[i].group_id = i - 1
                        /\ req'[r].sent[i].n_groups = n
                  /\ {req'[r].sent[i].group_id : i \in 1..n} = 0..(n - 1)
                  /\ \A i, j \in 1..n :
                        req'[r].sent[i].port = req'[r].sent[j].port => i = j
        /\ (req[r].op = "init_generate" /\ req[r].pc # "idle")
           => /\ req'[r].sent = req[r].sent
              /\ req'[r].backends = req[r].backends
      ]_vars

\* A fan-out over both backends has one answer and awaits the other, and a
\* backend of its snapshot has become unhealthy in the meantime.
C6_Witness ==
    \E r \in Reqs :
        /\ req[r].op = "init_generate" /\ req[r].pc = "awaiting"
        /\ Len(req[r].sent) = 2 /\ Len(req[r].got) = 1
        /\ req[r].sent[2].group_id = 1
        /\ \E i \in 1..Len(req[r].backends) : ~vllm_healthy[req[r].backends[i]]

\* C7 as stated: with a non-empty snapshot init_generate succeeds iff at
\* least one backend answered with status 200; the others are listed as
\* errors; without a success it fails with 502 and the errors.
C7_SucceedsIffSome200 ==
    \A r \in Reqs :
        (req[r].op = "init_generate" /\ req[r].pc = "done"
         /\ req[r].backends # <<>>)
        => /\ req[r].response.code = 200
                <=> \E g \in GotSet(r) : Is200(g.outcome)
           /\ req[r].response.code \in {200, 502}

\* C7 amended: with a non-empty snapshot init_generate succeeds iff at least
\* one backend answered 200 with a body that decodes as JSON.  Every other
\* backend (another status, an exception, a 200 whose body does not decode)
\* is listed in errors, in completion order, and does not fail the call; the
\* successes are listed in results; without a success the call fails with
\* 502 carrying the errors.
C7_SucceedsIffSome200Json ==
    \A r \in Reqs :
        (req[r].op = "init_generate" /\ req[r].pc = "done"
         /\ req[r].backends # <<>>)
        => LET ok(o) == Is200Json(o)
               failed(o) == ~Is200Json(o)
               resp == req[r].response
           IN  /\ resp.code = 200 <=> \E g \in GotSet(r) : ok(g.outcome)
               /\ resp.code = 200
                    => /\ resp.data.status = "OK"
                       /\ PortsOf(resp.data.results) = GotPorts(r, ok)
                       /\ resp.data.errors = OrNone(req[r].errors)
               /\ resp.code # 200
                    => /\ resp.code = 502
                       /\ resp.detail.errors = req[r].errors
               /\ PortsOf(req[r].errors) = GotPorts(r, failed)

\* One backend failed, the other succeeded, and the call succeeded with the
\* failure listed.
C7_Witness ==
    \E r \in Reqs :
        /\ req[r].op = "init_generate" /\ req[r].pc = "done"
        /\ req[r].response.code = 200
        /\ Len(req[r].response.data.results) = 1
        /\ ~req[r].response.data.errors.is_none
        /\ Len(req[r].response.data.errors.value) = 1

\* C8: stop always answers 200 with status OK.  With an empty healthy set
\* it has contacted no backend; otherwise every backend that did not answer
\* 200 with a decodable body is listed in errors and every other one in
\* results.
C8_StopNeverFails ==
    \A r \in Reqs :
        req[r].op = "stop"
        => /\ req[r].exit \in {"none", "returned"}
           /\ req[r].pc = "done"
                => LET resp == req[r].response
                       ok(o) == Is200Json(o)
                       failed(o) == ~Is200Json(o)
                   IN  /\ resp.code = 200
                       /\ resp.data.status = "OK"
                       /\ req[r].backends = <<>>
                            => /\ req[r].sent = <<>>
                               /\ req[r].got = <<>>
                       /\ req[r].backends # <<>>
                            => /\ Len(req[r].got) = Len(req[r].backends)
                               /\ PortsOf(resp.data.results) = GotPorts(r, ok)
                               /\ resp.data.errors = OrNone(req[r].errors)
                               /\ PortsOf(req[r].errors) = GotPorts(r, failed)

\* Every backend failed, one by an exception and one by a non-200 answer,
\* and stop answered OK with both listed.
C8_Witness ==
    \E r \in Reqs :
        /\ req[r].op = "stop" /\ req[r].pc = "done"
        /\ req[r].backends # <<>>
        /\ req[r].response.code = 200
        /\ req[r].response.data.results = <<>>
        /\ Len(req[r].errors) = 2
        /\ \E g \in GotSet(r) : g.outcome = Raise
        /\ \E g \in GotSet(r) : g.outcome = Resp(500, JsonInvalid)

\* What a backend reports to status: the status of its 200 answer, "ERROR"
\* when the call failed, "UNKNOWN" in every other case.
Reported(o) ==
    IF ~Is200Json(o) THEN "ERROR"
    ELSE IF o.json.isobj /\ "status" \in DOMAIN o.json.obj THEN o.json.obj.status
    ELSE "UNKNOWN"

\* C9: status never fails; it answers NO_BACKENDS iff the snapshot is empty,
\* GENERATING iff the snapshot is not empty and every backend reports
\* GENERATING, IDLE iff it is not empty and every backend reports IDLE, and
\* MIXED in every other case.
C9_StatusAggregation ==
    \A r \in Reqs :
        (req[r].op = "status" /\ req[r].pc = "done")
        => LET n == Len(req[r].backends)
               all(s) == /\ Len(req[r].got) = n
                         /\ \A g \in GotSet(r) : Reported(g.outcome) = s
               expected == IF n = 0 THEN "NO_BACKENDS"
                           ELSE IF all("GENERATING") THEN "GENERATING"
                           ELSE IF all("IDLE") THEN "IDLE"
                           ELSE "MIXED"
           IN  /\ req[r].response.code = 200
               /\ req[r].response.data.status = expected

\* The composite request id of port and inner id, spelled out.
IsComposite(id, port, inner) ==
    LET n == Len(IntToStr(port))
    IN  /\ Len(id) = n + 1 + Len(inner)
        /\ \A k \in 1..n : id[k] = IntToStr(port)[k]
        /\ id[n + 1] = ":"
        /\ \A k \in 1..Len(inner) : id[n + 1 + k] = inner[k]

\* C10: a generate request that succeeded returns the backend's answer; if
\* the answer is queued and carries a request id, that id is replaced by
\* str(port) ":" id for the port the request was routed to and nothing else
\* changes; every other answer is returned as it is.
C10_CompositeIdOnQueued ==
    \A r \in Reqs :
        (IsGenerate(r) /\ req[r].pc = "done" /\ req[r].exit = "ok")
        => LET body == req[r].upstream.json.obj
               data == req[r].response.data
               queued == /\ "status" \in DOMAIN body
                         /\ body.status = "queued"
                         /\ "request_id" \in DOMAIN body
           IN  /\ req[r].response.code = 200
               /\ DOMAIN data = DOMAIN body
               /\ queued => /\ IsComposite(data.request_id, req[r].port,
                                           body.request_id)
                            /\ \A k \in DOMAIN body \ {"request_id"} :
                                    data[k] = body[k]
               /\ ~queued => data = body

\* A queued answer of 5001 with inner id a:b came back as 5001:a:b, and a
\* completed answer of 5002 came back with its own id.
C10_Witness ==
    /\ req[1].exit = "ok" /\ req[1].port = vllm_backend_ports[1]
    /\ req[1].upstream.json.obj = [status |-> "queued", request_id |-> <<"a", ":", "b">>]
    /\ req[1].response.data.request_id = <<"5", "0", "0", "1", ":", "a", ":", "b">>
    /\ req[2].exit = "ok" /\ req[2].port = vllm_backend_ports[2]
    /\ req[2].upstream.json.obj.status = "completed"
    /\ req[2].response.data.request_id = <<"a">>

IsPoll(r) == req[r].op = "get_generate_result"

\* The generate request g ended with a queued answer that carries an id.
QueuedWithId(g) ==
    /\ IsGenerate(g) /\ req[g].pc = "done" /\ req[g].exit = "ok"
    /\ "status" \in DOMAIN req[g].upstream.json.obj
    /\ req[g].upstream.json.obj.status = "queued"
    /\ "request_id" \in DOMAIN req[g].upstream.json.obj

\* C11: when a poll is made with the composite id that a generate request
\* returned for a queued answer, the poll is not rejected and it is sent to
\* the port the generate request was routed to, with exactly the id the
\* backend had handed out, also when that id contains ":".
C11_CompositeRoundTrip ==
    \A g, q \in Reqs :
        (QueuedWithId(g) /\ IsPoll(q)
         /\ req[q].request_id = req[g].response.data.request_id)
        => /\ req[q].exit # "bad_request"
           /\ req[q].port = req[g].port
           /\ req[q].sent = <<[port |-> req[g].port, path |-> "generate/",
                               id |-> req[g].upstream.json.obj.request_id]>>

\* The second backend handed out the id a:b, and the poll with the id that
\* generate returned for it has gone to the second backend with a:b.
C11_Witness ==
    /\ QueuedWithId(1) /\ req[1].port = vllm_backend_ports[2]
    /\ req[1].upstream.json.obj.request_id = <<"a", ":", "b">>
    /\ IsPoll(2) /\ req[2].pc = "awaiting"
    /\ req[2].request_id = req[1].response.data.request_id
    /\ req[2].sent[1].id = <<"a", ":", "b">>

\* The characters "0" to "9".
DigitChars == SeqRange(Digits)

\* The id has no ":" at all.
NoSeparator(id) == \A k \in 1..Len(id) : id[k] # ":"

\* The id has a ":" and the part before the first one is not a number:
\* it is empty or has a character that is no digit.
BadBackendPart(id) ==
    \E k \in 1..Len(id) :
        /\ id[k] = ":"
        /\ \A j \in 1..(k - 1) : id[j] # ":"
        /\ (k = 1 \/ \E j \in 1..(k - 1) : id[j] \notin DigitChars)

\* C12: a poll whose id has no ":" or whose part before the first ":" is
\* not a number ends at once with 400, the first with "Invalid request_id
\* format" and the second with "Invalid port", and it sends nothing to any
\* backend, then or later.
C12_BadIdRejected ==
    [][\A r \in Reqs :
        /\ (req[r].pc = "idle" /\ req'[r].op = "get_generate_result"
            /\ (NoSeparator(req'[r].request_id) \/ BadBackendPart(req'[r].request_id)))
           => /\ req'[r].pc = "done"
              /\ req'[r].response.code = 400
              /\ req'[r].response.detail =
                    IF NoSeparator(req'[r].request_id)
                    THEN "Invalid request_id format (expected port:uuid)"
                    ELSE "Invalid port in request_id"
              /\ req'[r].sent = <<>>
        /\ (IsPoll(r) /\ req[r].pc = "done") => req'[r] = req[r]
      ]_vars

\* One poll was rejected for an id without ":", the other for an id whose
\* port part is not a number.
C12_Witness ==
    /\ IsPoll(1) /\ req[1].request_id = <<"a">>
    /\ req[1].response.code = 400 /\ req[1].sent = <<>>
    /\ IsPoll(2) /\ req[2].request_id = <<"x", ":", "a">>
    /\ req[2].response.code = 400 /\ req[2].sent = <<>>

\* C13: a poll that is not rejected sends one request: to the port whose
\* decimal spelling is the part of the id before the first ":", with the
\* rest of the id after that ":" as the backend's id.  When the backend
\* answers 200 with a JSON object, the poll answers 200 with that object, in
\* which request_id is the id the caller polled with (whether the backend
\* put another id there or none) and every other field is as the backend
\* sent it.
C13_PollForwardsAndRestoresId ==
    \A r \in Reqs :
        (IsPoll(r) /\ req[r].exit # "bad_request")
        => LET id == req[r].request_id
               k == CHOOSE k \in 1..Len(id) :
                        id[k] = ":" /\ \A j \in 1..(k - 1) : id[j] # ":"
           IN  /\ Len(req[r].sent) = 1
               /\ req[r].sent[1].port = req[r].port
               /\ IntToStr(req[r].sent[1].port) = SubSeq(id, 1, k - 1)
               /\ req[r].sent[1].id = SubSeq(id, k + 1, Len(id))
               /\ (req[r].pc = "done" /\ Is200Json(req[r].upstream)
                   /\ req[r].upstream.json.isobj)
                  => LET body == req[r].upstream.json.obj
                         data == req[r].response.data
                     IN  /\ req[r].response.code = 200
                         /\ DOMAIN data = DOMAIN body \cup {"request_id"}
                         /\ data.request_id = id
                         /\ \A f \in DOMAIN body \ {"request_id"} :
                                data[f] = body[f]

\* The backend answered the poll of 5002:a:b with the id a, and the poll of
\* 5001:a without any id; both polls returned the id they were made with.
C13_Witness ==
    /\ IsPoll(1) /\ req[1].pc = "done"
    /\ req[1].request_id = <<"5", "0", "0", "2", ":", "a", ":", "b">>
    /\ req[1].upstream = Resp(200, JsonObject([status |-> "completed",
                                               request_id |-> <<"a">>]))
    /\ req[1].response.data.request_id = req[1].request_id
    /\ IsPoll(2) /\ req[2].pc = "done"
    /\ req[2].request_id = <<"5", "0", "0", "1", ":", "a">>
    /\ req[2].upstream = Resp(200, JsonObject([status |-> "completed"]))
    /\ req[2].response.data.request_id = req[2].request_id

\* C14: a step of a poll (its start or its end) changes neither an
\* in-flight count nor a health flag nor a PoC status nor another request,
\* and the poll holds no backend; two finished polls with the same id whose
\* backend gave the same answer have returned the same response.
C14_PollSideEffectFree ==
    [][/\ \A r \in Reqs :
            (req'[r] # req[r] /\ req'[r].op = "get_generate_result")
            => /\ vllm_counts' = vllm_counts
               /\ vllm_healthy' = vllm_healthy
               /\ poc_status_by_port' = poc_status_by_port
               /\ req'[r].releases = 0
               /\ \A q \in Reqs \ {r} : req'[q] = req[q]
       /\ \A r, q \in Reqs :
            (/\ req'[r].op = "get_generate_result" /\ req'[r].pc = "done"
             /\ req'[q].op = "get_generate_result" /\ req'[q].pc = "done"
             /\ req'[r].request_id = req'[q].request_id
             /\ req'[r].upstream = req'[q].upstream)
            => req'[r].response = req'[q].response
      ]_vars

\* Two polls of 5001:a have both returned the same completed answer, while
\* 5001 has become unhealthy.
C14_Witness ==
    /\ IsPoll(1) /\ IsPoll(2)
    /\ req[1].request_id = <<"5", "0", "0", "1", ":", "a">>
    /\ req[2].request_id = req[1].request_id
    /\ req[1].pc = "done" /\ req[2].pc = "done"
    /\ req[1].response.code = 200
    /\ req[2].response = req[1].response
    /\ ~vllm_healthy[vllm_backend_ports[1]]
    /\ \A p \in Ports : vllm_counts[p] = 0

\* C15: a generate request or a poll whose backend answered with a status
\* other than 200 answers with that same status, and one whose call to the
\* backend raised answers 502.
C15_UpstreamStatusSurfaced ==
    \A r \in Reqs :
        ((IsGenerate(r) \/ IsPoll(r)) /\ req[r].pc = "done"
         /\ req[r].exit \in AnsweredExits)
        => /\ (req[r].upstream.kind = "response"
               /\ req[r].upstream.status_code # 200)
              => req[r].response.code = req[r].upstream.status_code
           /\ req[r].upstream = Raise => req[r].response.code = 502

\* A generate request has passed on a 400, and a poll a 404; or a poll has
\* passed on a 400 and a generate request's call has raised.
C15_Witness ==
    \/ /\ IsGenerate(1) /\ req[1].upstream = Resp(400, JsonInvalid)
       /\ req[1].response.code = 400
       /\ IsPoll(2) /\ req[2].upstream = Resp(404, JsonInvalid)
       /\ req[2].response.code = 404
    \/ /\ IsPoll(1) /\ req[1].upstream = Resp(400, JsonInvalid)
       /\ req[1].response.code = 400
       /\ IsGenerate(2) /\ req[2].pc = "done" /\ req[2].upstream = Raise
       /\ req[2].response.code = 502

\* s is t without its last element.
IsAppendOf(t, s) == Len(t) = Len(s) + 1 /\ SubSeq(t, 1, Len(s)) = s

C17_StopIsForwardSignal ==
    [][\A r \in Reqs :
        /\ (req'[r].op = "stop" /\ req'[r] # req[r])
           => /\ vllm_counts' = vllm_counts
              /\ req'[r].port = 0 /\ req'[r].releases = 0
              /\ \A q \in Reqs \ {r} : req'[q] = req[q]
        /\ (IsGenerate(r) /\ req[r].pc = "awaiting" /\ req'[r] # req[r])
           => /\ req'[r].pc = "done"
              /\ req'[r].exit \in AnsweredExits
              /\ req'[r].releases = 1
              /\ vllm_counts' = [vllm_counts EXCEPT ![req[r].port] = @ - 1]
      ]_vars

\* A generate request was routed to a backend; stop then ran and that
\* backend answered it; the generate request still awaits its call and
\* holds the backend.
C17_Witness ==
    /\ IsGenerate(1) /\ req[1].pc = "awaiting"
    /\ vllm_counts[req[1].port] = 1
    /\ req[2].op = "stop" /\ req[2].pc = "done" /\ req[2].backends # <<>>
    /\ \E k \in 1..Len(req[2].response.data.results) :
            req[2].response.data.results[k].port = req[1].port

\* The sum of the weights of the first k entries of a weight table.
RECURSIVE CumulativeWeight(_, _)
CumulativeWeight(w, k) ==
    IF k = 0 THEN 0 ELSE CumulativeWeight(w, k - 1) + w[k].weight

TotalWeight(w) == CumulativeWeight(w, Len(w))

\* The position in the batch of the slot index that get_slot was asked for.
BatchPosition == sampler.slot_idx - sampler.start_idx + 1

\* C18 as stated: for every weight table, the element of the batch
\* get_slots returned for a slot index is what get_slot returns for that
\* index.
C18_BatchEqualsSingle ==
    sampler.pc = "single"
    => /\ BatchPosition \in DOMAIN sampler.slots
       /\ sampler.slots[BatchPosition] = sampler.slot

\* C18 amended: for every weight table whose total weight is positive,
\* get_slots returns n_slots elements and the element for a slot index is
\* what get_slot returns for that index; for a table whose total weight is 0
\* get_slots returns the empty list and get_slot returns None.
C18_BatchEqualsSingleIfWeighted ==
    sampler.pc = "single"
    => IF TotalWeight(sampler.all_weights) > 0
       THEN /\ Len(sampler.slots) = sampler.n_slots
            /\ sampler.slots[BatchPosition] = sampler.slot
       ELSE /\ sampler.slots = <<>>
            /\ sampler.slot = None

\* A batch of two slots from index 1 on whose random values are not in
\* ascending order and fall to different addresses; get_slot was asked for
\* the second one.
C18_Witness ==
    /\ sampler.pc = "single"
    /\ TotalWeight(sampler.all_weights) > 0
    /\ sampler.start_idx = 1 /\ sampler.n_slots = 2 /\ sampler.slot_idx = 2
    /\ sampler.sha[1] % TotalWeight(sampler.all_weights)
            > sampler.sha[2] % TotalWeight(sampler.all_weights)
    /\ sampler.slots[1] # sampler.slots[2]
    /\ sampler.slots[2] = sampler.slot

\* C19: for a weight table whose weights are all positive, get_slot returns
\* the address of the entry k whose range, from the cumulative weight before
\* k up to but not including the cumulative weight with k, holds the random
\* value; k is the first entry whose cumulative weight exceeds the value and
\* no other entry's range holds it, so a value equal to the cumulative
\* weight of an entry falls to the next entry.
C19_FirstRangeContaining ==
    (/\ sampler.pc = "single"
     /\ sampler.all_weights # <<>>
     /\ \A k \in 1..Len(sampler.all_weights) : sampler.all_weights[k].weight > 0)
    => LET w == sampler.all_weights
           r == sampler.sha[sampler.slot_idx] % TotalWeight(w)
           holds(k) == CumulativeWeight(w, k - 1) <= r /\ r < CumulativeWeight(w, k)
       IN  \E k \in 1..Len(w) :
            /\ sampler.slot = w[k].address
            /\ holds(k)
            /\ \A j \in 1..Len(w) : holds(j) => j = k
            /\ \A j \in 1..(k - 1) : ~(CumulativeWeight(w, j) > r)

\* The random value equals the weight of the first entry, 2, and the slot
\* is the second entry's address.
C19_Witness ==
    /\ sampler.pc = "single"
    /\ Len(sampler.all_weights) = 3
    /\ \A k \in 1..3 : sampler.all_weights[k].weight > 0
    /\ sampler.all_weights[1].weight = 2
    /\ sampler.sha[sampler.slot_idx] % TotalWeight(sampler.all_weights) = 2
    /\ sampler.slot = Addresses[2]

\* C20: for a weight table whose total weight is 0, the empty table
\* included, get_slot returns None; it ends with no exception.
C20_NoSlotWithoutWeight ==
    (sampler.pc = "single" /\ TotalWeight(sampler.all_weights) = 0)
    => sampler.slot = None

\* get_slot has returned None for the empty table.
C20_Witness ==
    /\ sampler.pc = "single"
    /\ sampler.all_weights = <<>>
    /\ sampler.slot = None

\* ------------------------------------------------ properties: validate_host

\* The positions of slots whose validator votes True.
YesPositions(f) ==
    {k \in 1..Len(f.slots) : get_vote_from(f.votes, f.slots[k]) = True}

\* C21: phase 1 of validate_host samples N_SLOTS slots (when the table has
\* weight) and counts one vote for each position of the batch, so that an
\* address sampled several times counts as often; it returns True if the yes
\* count is more than half of N_SLOTS, False if the no count is, and goes
\* on to the loop of phase 2 exactly when neither is.
C21_PhaseOneMajority ==
    [][sampler.pc = "tally" /\ sampler'.pc # "tally" =>
        LET f == sampler'
            yes == Cardinality(YesPositions(f))
            no == Len(f.slots) - yes
        IN  /\ total_weight_of(f.prev_weights) > 0 => Len(f.slots) = N_SLOTS
            /\ f.voted_yes = yes
            /\ f.voted_no = no
            /\ 2 * yes > N_SLOTS =>
                    f.pc = "returned" /\ f.result = True /\ f.exit = "batch"
            /\ 2 * yes <= N_SLOTS /\ 2 * no > N_SLOTS =>
                    f.pc = "returned" /\ f.result = False /\ f.exit = "batch"
            /\ f.pc = "fallback" <=> 2 * yes <= N_SLOTS /\ 2 * no <= N_SLOTS
            /\ f.pc = "fallback" => f.slot_idx = N_SLOTS /\ f.sampled = <<>>]_vars

\* Phase 1 returned True although some slots voted no, on a batch in which
\* addresses repeat.
C21_Witness ==
    /\ sampler.pc = "returned"
    /\ sampler.exit = "batch"
    /\ sampler.result = True
    /\ sampler.voted_no > 0
    /\ Len(sampler.slots) = N_SLOTS
    /\ Len(sampler.queried) < Len(sampler.slots)

\* The addresses the call has come to so far: the positions of slots its
\* first loop has passed, and the slots of the indices sampled in phase 2.
Visited(f) ==
    LET passed == IF f.pc = "fetch" THEN f.k - 1 ELSE Len(f.slots)
    IN  {f.slots[k] : k \in 1..passed}
            \cup {get_slot(digest_of(f.seed), f.prev_weights, f.sampled[i]) :
                      i \in 1..Len(f.sampled)}

\* C22: within one call of validate_host no address is asked for its vote
\* twice, in phase 1 and phase 2 together: the cache holds the fetched vote
\* of exactly the addresses asked, and the addresses asked in this call are
\* exactly the addresses it has come to, so that no vote is left over from
\* an earlier call.
C22_OneFetchPerAddress ==
    sampler.pc # "start" =>
        /\ \A i, j \in 1..Len(sampler.queried) :
                sampler.queried[i] = sampler.queried[j] => i = j
        /\ DOMAIN sampler.validator_votes =
                {sampler.queried[i] : i \in 1..Len(sampler.queried)}
        /\ \A a \in DOMAIN sampler.validator_votes :
                sampler.validator_votes[a] = get_vote_from(sampler.votes, a)
        /\ DOMAIN sampler.validator_votes = Visited(sampler)

\* A second call returned from phase 2, where it asked an address that the
\* batch did not hold; the batch held two addresses 64 times.
C22_Witness ==
    /\ sampler.pc = "returned"
    /\ sampler.evaluation = 2
    /\ sampler.exit = "fallback"
    /\ Len(sampler.queried) = 3
    /\ \A k \in 1..Len(sampler.slots) : sampler.slots[k] # sampler.queried[3]

\* The indices sampled in phase 2 whose validator votes True.
YesSampled(f) ==
    {i \in 1..Len(f.sampled) :
        get_vote_from(f.votes,
            get_slot(digest_of(f.seed), f.prev_weights, f.sampled[i])) = True}

\* C23: every iteration of phase 2 counts the vote of its slot and then
\* compares the counts with half of the votes cast so far, which is
\* yes + no, the slots of both phases; it returns True (False) exactly when
\* the yes (no) count is more than that half, and samples on otherwise.
C23_FallbackMajorityOfVotesCast ==
    [][sampler.pc = "fallback" /\ sampler'.sampled # sampler.sampled =>
        LET f == sampler'
            yes == Cardinality(YesPositions(f)) + Cardinality(YesSampled(f))
            cast == Len(f.slots) + Len(f.sampled)
        IN  /\ f.voted_yes = yes
            /\ f.voted_no = cast - yes
            /\ f.voted_yes + f.voted_no = sampler.voted_yes + sampler.voted_no + 1
            /\ f.half_of = f.voted_yes + f.voted_no
            /\ f.pc = "returned" /\ f.result = True <=> 2 * yes > cast
            /\ f.pc = "returned" /\ f.result = False <=>
                    2 * yes <= cast /\ 2 * (cast - yes) > cast
            /\ f.pc \in {"returned", "fallback"}
            /\ f.pc = "returned" => f.exit = "fallback"]_vars

\* Phase 2 returned False on the vote of slot 64: 33 of 65 votes are no.
C23_Witness ==
    /\ sampler.pc = "returned"
    /\ sampler.exit = "fallback"
    /\ sampler.result = False
    /\ sampler.half_of = N_SLOTS + 1
    /\ sampler.voted_no = sampler.voted_yes + 1

\* The indices of phase 2 are N_SLOTS, N_SLOTS + 1, ... and stay below the
\* total weight; a call that returns, returns True, False or None, and None
\* exactly when the index is at or beyond the total weight with no majority.
BoundedFallback ==
    LET f == sampler
        total_weight == total_weight_of(f.prev_weights)
        cast == f.voted_yes + f.voted_no
    IN  /\ \A i \in 1..Len(f.sampled) :
                f.sampled[i] = N_SLOTS + i - 1 /\ f.sampled[i] < total_weight
        /\ f.pc = "returned" =>
                /\ f.result \in {True, False, None}
                /\ f.result = None <=> f.exit = "exhausted"
                /\ f.exit = "exhausted" =>
                        /\ f.slot_idx >= total_weight
                        /\ f.slot_idx = N_SLOTS + Len(f.sampled)
                        /\ 2 * f.voted_yes <= cast
                        /\ 2 * f.voted_no <= cast

\* C24: every call of validate_host that has its batch returns; phase 2 samples the indices
\* N_SLOTS, N_SLOTS + 1, ... below the total weight only, and a call whose
\* index is at the total weight without a majority returns None, a value
\* like True and False.
C24_ConsensusTerminates ==
    /\ []BoundedFallback
    /\ (sampler.pc \in {"fetch", "tally", "fallback"}) ~> (sampler.pc = "returned")

\* A call over a table with weight returned None: its 64 votes are tied and
\* no index below the total weight is left.
C24_Witness ==
    /\ sampler.pc = "returned"
    /\ sampler.exit = "exhausted"
    /\ sampler.result = None
    /\ total_weight_of(sampler.prev_weights) > 0
    /\ sampler.voted_yes = sampler.voted_no
    /\ sampler.voted_yes > 0

\* C25: a call of validate_host over a table whose total weight is 0 has no
\* slot in its batch, samples no index in phase 2, asks no address for its
\* vote and counts no vote, and it returns None.
C25_NoWeightNoConsensus ==
    total_weight_of(prev_weights_of(sampler.weights)) = 0 =>
        /\ sampler.slots = <<>>
        /\ sampler.sampled = <<>>
        /\ sampler.queried = <<>>
        /\ sampler.validator_votes = <<>>
        /\ sampler.voted_yes = 0
        /\ sampler.voted_no = 0
        /\ sampler.pc = "returned" =>
                sampler.result = None /\ sampler.exit = "exhausted"

\* A call over a table of two addresses without weight returned.
C25_Witness ==
    /\ sampler.pc = "returned"
    /\ sampler.weights = <<0, 0>>
    /\ sampler.result = None
    /\ sampler.slot_idx = N_SLOTS

\* Every address votes v.
Unanimous(f, v) == \A a \in DOMAIN f.votes : f.votes[a] = v

\* C26: over a table with weight, a call of validate_host whose validators
\* all vote True returns True from phase 1, and one whose validators all
\* vote False returns False from phase 1; neither enters the loop of
\* phase 2.
C26_Unanimity ==
    LET f == sampler
    IN  total_weight_of(prev_weights_of(f.weights)) > 0 =>
            /\ Unanimous(f, True) =>
                    /\ f.pc # "fallback"
                    /\ f.pc = "returned" => f.result = True /\ f.exit = "batch"
            /\ Unanimous(f, False) =>
                    /\ f.pc # "fallback"
                    /\ f.pc = "returned" => f.result = False /\ f.exit = "batch"

\* The table of get_weights, every validator voting False: the call
\* returned False.
C26_Witness ==
    /\ sampler.pc = "returned"
    /\ sampler.weights = <<100, 200, 300>>
    /\ Unanimous(sampler, False)
    /\ sampler.result = False
    /\ sampler.voted_no = N_SLOTS

\* C27: a second call of validate_host with the same app_hash and host, the
\* same weight table and the same vote function samples the same batch and
\* the same indices of phase 2, asks the same addresses for their votes in
\* the same order and returns the same verdict from the same place: nothing
\* the first call left behind reaches the second.
C27_SecondCallAgrees ==
    sampler.evaluation = 2 /\ sampler.pc = "returned" =>
        ValidateHostOutcome(sampler) = sampler.first

\* A second call returned True from phase 2 after asking two addresses.
C27_Witness ==
    /\ sampler.evaluation = 2
    /\ sampler.pc = "returned"
    /\ sampler.exit = "fallback"
    /\ sampler.result = True
    /\ Len(sampler.queried) = 2
    /\ sampler.first.queried = sampler.queried

\* ---------------------------------------------------- properties: validation

\* The nonces of the nonce list and of the claimed artifacts of a body.
ListedNonces(body) == {body.nonces[i] : i \in 1..Len(body.nonces)}

ClaimedNonces(body) == {body.artifacts[i].nonce : i \in 1..Len(body.artifacts)}

\* Request r is a validation request that the backend has answered.
Validated(r) ==
    /\ req[r].op = "generate"
    /\ req[r].body.validation
    /\ req[r].pc = "done"
    /\ req[r].upstream.kind = "response"

\* C28: a validation request whose nonce list and claimed artifacts do not
\* have the same set of nonces is answered 400 by the backend, and the
\* caller of generate gets that 400, with no result.
C28_NonceMismatchIs400 ==
    \A r \in Reqs :
        Validated(r) /\ ListedNonces(req[r].body) # ClaimedNonces(req[r].body) =>
            /\ req[r].upstream.status_code = 400
            /\ req[r].response.code = 400
            /\ "data" \notin DOMAIN req[r].response
            /\ req[r].releases = 1

\* As many nonces as artifacts, none of them the nonce of an artifact: the
\* caller got 400.
C28_Witness ==
    \E r \in Reqs :
        /\ Validated(r)
        /\ Len(req[r].body.nonces) = Len(req[r].body.artifacts)
        /\ req[r].body.nonces # <<>>
        /\ ListedNonces(req[r].body) \cap ClaimedNonces(req[r].body) = {}
        /\ req[r].response.code = 400

\* The artifact of the body that claims the nonce at position i of the
\* nonce list.
ClaimFor(body, i) ==
    CHOOSE k \in 1..Len(body.artifacts) : body.artifacts[k].nonce = body.nonces[i]

\* The claimed vector of the nonce at position i is farther than
\* dist_threshold from the regenerated one.
Exceeds(body, i) ==
    LET c == body.artifacts[ClaimFor(body, i)].vector
        g == regenerate(body.nonces[i])
    IN  (c[1] - g[1]) * (c[1] - g[1]) + (c[2] - g[2]) * (c[2] - g[2])
            > dist_threshold * dist_threshold

\* The place of a nonce in the nonce list.
PlaceOf(body, nonce) == CHOOSE i \in 1..Len(body.nonces) : body.nonces[i] = nonce

\* C29: a well-formed validation request is answered with a result, not an
\* error: n_total is the number of nonces, n_mismatch the number of nonces
\* whose claimed vector is farther than dist_threshold from the regenerated
\* one, between 0 and n_total, and mismatch_nonces holds exactly these
\* nonces, in the order of the nonce list.
C29_MismatchCounts ==
    \A r \in Reqs :
        LET body == req[r].body
        IN  /\ Validated(r)
            /\ ListedNonces(body) = ClaimedNonces(body)
            /\ Len(body.nonces) = Len(body.artifacts)
            => /\ req[r].response.code = 200
               /\ LET data == req[r].response.data
                      far == {i \in 1..Len(body.nonces) : Exceeds(body, i)}
                      m == data.mismatch_nonces
                  IN  /\ data.n_total = Len(body.nonces)
                      /\ data.n_mismatch = Cardinality(far)
                      /\ data.n_mismatch >= 0 /\ data.n_mismatch <= data.n_total
                      /\ Len(m) = data.n_mismatch
                      /\ {m[i] : i \in 1..Len(m)} = {body.nonces[i] : i \in far}
                      /\ \A i, j \in 1..Len(m) :
                              i < j => PlaceOf(body, m[i]) < PlaceOf(body, m[j])

\* Two nonces, claimed in the other order: the first is exactly at
\* dist_threshold and no mismatch, the second is the one mismatch.
C29_Witness ==
    \E r \in Reqs :
        /\ Validated(r)
        /\ req[r].response.code = 200
        /\ req[r].body.nonces = <<1, 2>>
        /\ req[r].body.artifacts[1].nonce = 2
        /\ claimed_vector(req[r].body, 1) = <<12, 16>>
        /\ req[r].response.data.mismatch_nonces = <<2>>

\* C31: a call of validate_host samples at most N_SLOTS + 1 slots: the loop
\* of phase 2 runs an iteration only after a batch of N_SLOTS slots whose
\* votes are tied at N_SLOTS / 2 each, and that one iteration returns True
\* or False on a majority of one vote among the N_SLOTS + 1 cast; no second
\* iteration runs, whatever the total weight.
C31_AtMostOneFallbackVote ==
    LET f == sampler
        yes == Cardinality(YesPositions(f))
    IN  /\ Len(f.slots) + Len(f.sampled) <= N_SLOTS + 1
        /\ Len(f.sampled) <= 1
        /\ Len(f.sampled) = 1 =>
                /\ f.sampled[1] = N_SLOTS
                /\ Len(f.slots) = N_SLOTS
                /\ 2 * yes = N_SLOTS
                /\ f.pc = "returned"
                /\ f.exit = "fallback"
                /\ f.voted_yes + f.voted_no = N_SLOTS + 1
                /\ \/ f.result = True /\ f.voted_yes = f.voted_no + 1
                   \/ f.result = False /\ f.voted_no = f.voted_yes + 1

\* Phase 2 returned True after one vote although indices below the total
\* weight were left to sample.
C31_Witness ==
    /\ sampler.pc = "returned"
    /\ sampler.exit = "fallback"
    /\ sampler.result = True
    /\ Len(sampler.sampled) = 1
    /\ total_weight_of(sampler.prev_weights) > N_SLOTS + 2

\* The batch has N_SLOTS slots, half of them of validators that vote True.
ExactTie(f) ==
    /\ Len(f.slots) = N_SLOTS
    /\ 2 * Cardinality(YesPositions(f)) = N_SLOTS

\* C32: a call of validate_host returns None in two cases only: the total
\* weight is 0, or the batch ends in an exact tie and the total weight is at
\* most N_SLOTS, so that the loop of phase 2 has no index to sample; in
\* every other case it returns True or False.
C32_IndeterminateCases ==
    sampler.pc = "returned" =>
        LET f == sampler
            total_weight == total_weight_of(f.prev_weights)
        IN  /\ f.result = None <=>
                    \/ total_weight = 0
                    \/ ExactTie(f) /\ total_weight <= N_SLOTS
            /\ f.result # None => f.result \in {True, False}

\* A call over a table of total weight N_SLOTS returned None on a batch tied
\* at 32 votes each.
C32_Witness ==
    /\ sampler.pc = "returned"
    /\ sampler.result = None
    /\ total_weight_of(sampler.prev_weights) = N_SLOTS
    /\ ExactTie(sampler)
    /\ sampler.sampled = <<>>

\* The positions of the batch that the loop of lines 125-129 has passed.
Tallied(f) ==
    IF f.pc = "tally" THEN 1..(f.k - 1) ELSE 1..Len(f.slots)

\* The tallied positions of the batch, and the indices sampled in phase 2,
\* whose validator's vote is v.
VotesOf(f, v) ==
    Cardinality({k \in Tallied(f) : get_vote_from(f.votes, f.slots[k]) = v})
        + Cardinality({i \in 1..Len(f.sampled) :
              get_vote_from(f.votes,
                  get_slot(digest_of(f.seed), f.prev_weights, f.sampled[i])) = v})

\* C33: in validate_host a slot whose validator gave no vote (get_vote_from
\* returned None) counts as a no, once for each occurrence of the address:
\* the no count is the number of slots whose vote is False or None, the yes
\* count the number whose vote is True, and the two add up to the number of
\* slots tallied, in the batch and in phase 2 together.
C33_AbsentVoteIsNo ==
    sampler.pc \in {"tally", "fallback", "returned"} =>
        LET f == sampler
        IN  /\ f.voted_yes = VotesOf(f, True)
            /\ f.voted_no = VotesOf(f, False) + VotesOf(f, None)
            /\ f.voted_yes + f.voted_no = Cardinality(Tallied(f)) + Len(f.sampled)

\* A call returned False although no validator voted False: the no votes
\* are those of validators that gave none, one of them sampled in phase 2.
C33_Witness ==
    /\ sampler.pc = "returned"
    /\ sampler.result = False
    /\ \A a \in DOMAIN sampler.votes : sampler.votes[a] # False
    /\ Len(sampler.sampled) = 1
    /\ sampler.voted_no = VotesOf(sampler, None)
    /\ sampler.voted_no > Len(sampler.queried)

\* ------------------------------------------- properties: sampler, continued

\* The addresses of a weight table.
AddressesOf(w) == {w[k].address : k \in 1..Len(w)}

\* C34: for a weight table whose weights are all positive (and which has an
\* entry), get_slots returns exactly n_slots entries and each of them is an
\* address of the table, none is None; for a table whose total weight is 0
\* it returns the empty list, not n_slots times None.
C34_BatchIsFilled ==
    sampler.pc \in {"batch", "single"} =>
        LET w == sampler.all_weights
        IN  /\ (w # <<>> /\ \A k \in 1..Len(w) : w[k].weight > 0) =>
                    /\ Len(sampler.slots) = sampler.n_slots
                    /\ \A j \in 1..sampler.n_slots :
                            sampler.slots[j] \in AddressesOf(w) /\ sampler.slots[j] # None
            /\ TotalWeight(w) = 0 => sampler.slots = <<>>

\* get_slots returned a batch of two slots of different addresses, the
\* later address first, over a table of three positive weights.
C34_Witness ==
    /\ sampler.pc = "batch"
    /\ Len(sampler.all_weights) = 3
    /\ \A k \in 1..3 : sampler.all_weights[k].weight > 0
    /\ sampler.n_slots = 2
    /\ sampler.slots[1] = Addresses[3]
    /\ sampler.slots[2] = Addresses[1]

\* C37: for a weight table of distinct addresses whose weights are all
\* positive, find_slot_address maps exactly weight-many of the values
\* 0 .. total weight - 1 to each address of the table, and it returns for
\* every one of these values from inside its loop: the fallback to the last
\* address after the loop is not taken.
C37_ExactProportionality ==
    LET w == sampler.all_weights
    IN  (/\ sampler.pc \in {"start", "batch", "single"}
         /\ w # <<>>
         /\ \A k \in 1..Len(w) : w[k].weight > 0
         /\ \A j, k \in 1..Len(w) : w[j].address = w[k].address => j = k)
        => LET values == 0..(TotalWeight(w) - 1)
           IN  /\ \A k \in 1..Len(w) :
                    Cardinality({r \in values :
                        find_slot_address(r, w) = w[k].address}) = w[k].weight
               /\ \A r \in values :
                    /\ find_slot_address(r, w) \in AddressesOf(w)
                    /\ find_slot_address_return(r, w) = "found"

\* get_slot looked up the last value below the total weight, 4, in a table
\* of weights 1, 2 and 2, and returned the last address from inside the loop.
C37_Witness ==
    /\ sampler.pc = "single"
    /\ Len(sampler.all_weights) = 3
    /\ sampler.all_weights[1].weight = 1
    /\ sampler.all_weights[2].weight = 2
    /\ sampler.all_weights[3].weight = 2
    /\ sampler.sha[sampler.slot_idx] % TotalWeight(sampler.all_weights) = 4
    /\ sampler.slot = Addresses[3]
    /\ find_slot_address_return(4, sampler.all_weights) = "found"

\* ---------------------------------------------- properties: router, continued

\* The list a response field made with "x if x else None" stands for.
ListOrNone(x) == IF x.is_none THEN <<>> ELSE x.value

\* The number of entries of a list of results or errors that name port.
Mentions(entries, port) ==
    Cardinality({k \in 1..Len(entries) : entries[k].port = port})

\* C35: in the response of init_generate over a snapshot of n backends
\* each backend of the snapshot is named exactly once, in results or in
\* errors and not in both (a 502 response has the errors only); in a 200
\* response backends is the number of backends that succeeded and n_groups
\* is n even when backends failed; the requests sent carry the group ids
\* 0..n-1 by position in the snapshot, those of the failed backends
\* included: no id is given to another backend.
C35_OneEntryPerBackend ==
    \A r \in Reqs :
        (/\ req[r].op = "init_generate"
         /\ req[r].pc = "done"
         /\ req[r].exit = "returned")
        => LET response == req[r].response
               n == Len(req[r].backends)
               results == IF response.code = 200 THEN response.data.results
                          ELSE <<>>
               errors == IF response.code = 200
                         THEN ListOrNone(response.data.errors)
                         ELSE response.detail.errors
               succeeded == {g \in GotSet(r) : Is200Json(g.outcome)}
           IN  /\ response.code \in {200, 502}
               /\ \A i \in 1..n :
                    /\ Mentions(results, req[r].backends[i])
                            + Mentions(errors, req[r].backends[i]) = 1
                    /\ Mentions(results, req[r].backends[i]) = 1
                            <=> \E g \in succeeded : g.index = i
               /\ Len(results) + Len(errors) = n
               /\ response.code = 200 =>
                    /\ response.data.backends = Cardinality(succeeded)
                    /\ response.data.backends = Len(results)
                    /\ response.data.n_groups = n
               /\ \A i \in 1..n :
                    /\ req[r].sent[i].port = req[r].backends[i]
                    /\ req[r].sent[i].group_id = i - 1
                    /\ req[r].sent[i].n_groups = n

\* A fan-out over two backends answered 200 with one result and one error:
\* the backend with group id 0 failed, and n_groups is 2.
C35_Witness ==
    \E r \in Reqs :
        /\ req[r].op = "init_generate" /\ req[r].pc = "done"
        /\ req[r].response.code = 200
        /\ Len(req[r].backends) = 2
        /\ req[r].response.data.backends = 1
        /\ req[r].response.data.n_groups = 2
        /\ ~req[r].response.data.errors.is_none
        /\ req[r].response.data.errors.value[1].port = req[r].backends[1]
        /\ req[r].response.data.results[1].port = req[r].backends[2]

\* C36: get_generate_result does not look at the pool.  A poll whose id has
\* a ":" with a number before the first one is not rejected: it sends its
\* request to the port of that number, whether that port is healthy,
\* unhealthy or no backend of the pool at all; and when the call to the
\* backend fails (call_backend raises), the poll answers 502, not 400.
C36_PollIgnoresPool ==
    [][\A r \in Reqs :
        /\ (/\ req[r].pc = "idle"
            /\ req'[r].op = "get_generate_result"
            /\ ~NoSeparator(req'[r].request_id)
            /\ ~BadBackendPart(req'[r].request_id))
           => /\ req'[r].pc = "awaiting"
              /\ req'[r].exit # "bad_request"
              /\ req'[r].response = NoResponse
              /\ Len(req'[r].sent) = 1
              /\ Compose(req'[r].sent[1].port, req'[r].sent[1].id)
                    = req'[r].request_id
        /\ (IsPoll(r) /\ req[r].pc = "awaiting" /\ req'[r].pc = "done"
            /\ req'[r].upstream = Raise)
           => /\ req'[r].response.code = 502
              /\ req'[r].exit = "exception"
      ]_vars

\* One poll named a port that is no backend of the pool and ended with 502
\* when the call failed; the other was sent to a backend that is unhealthy.
C36_Witness ==
    /\ IsPoll(1) /\ req[1].pc = "done"
    /\ req[1].port = UnknownPort
    /\ req[1].upstream = Raise
    /\ req[1].response.code = 502
    /\ IsPoll(2) /\ req[2].pc = "awaiting"
    /\ req[2].port \in Ports
    /\ ~vllm_healthy[req[2].port]
    /\ Len(req[2].sent) = 1

====
